---------------------------- MODULE Spec2Model ----------------------------
(***************************************************************************)
(* A model of the tabularxr relay core: Gate -> (fan-in queue) -> Parser   *)
(* -> Transformer -> Updater -> sink.                                      *)
(*                                                                         *)
(* Conventions.                                                            *)
(*  - A Go []byte is a sequence of numbers 0..255; a nil pointer or an     *)
(*    absent optional value is the empty sequence <<>>, a present one a    *)
(*    one-element sequence.                                                *)
(*  - uuid.New() is modelled as a fresh value drawn from a counter         *)
(*    (uuidCounter): the library's effective uniqueness is assumed.        *)
(*  - time.Now() is the variable now, an integer clock that several steps  *)
(*    can read at the same value.                                          *)
(*  - Each component has its own specification (SpecTransformer,           *)
(*    SpecUpdater, SpecMesh, SpecGate, SpecTable) over the same variables; *)
(*    a specification leaves the variables of actions it does not schedule *)
(*    unchanged.                                                           *)
(***************************************************************************)
EXTENDS Integers, Sequences, FiniteSets, TLC

VARIABLES
    \* Transformer (src/internal/transformer/transformer.go)
    anchorMap,      \* sessionID -> anchorID
    uuidCounter,    \* number of uuid.New() values drawn so far
    poseLog,        \* history: anchors carried by the pose events produced
    clearCount,     \* history: ClearStaleSession calls per session
    lastTransform,  \* history: the last packet given to Transform and the event returned
    lastNormalize,  \* history: the last call of NormalizeTimestamp, and a call on its result
    \* Updater (src/internal/updater/updater.go)
    eventQueue,     \* pending events
    lastMeshes,     \* anchorID -> last mesh vertices
    pendingFlush,   \* `go u.flushBatch()` goroutines that have not yet taken queueMutex
    batches,        \* every batch formed by flushBatch, with its delivery state
    bp,             \* position of the batchProcessor goroutine
    updStopC,       \* Updater.stopC is closed
    stopReturned,   \* Updater.Stop has returned
    accepted,       \* history: ids of the events ProcessEvent has queued
    lastCall,       \* history: the last mesh-diff seen by applyMeshDiffing, in and out
    meshEmitted,    \* history: anchors emitted as a mesh-diff and not cleared since
    \* Gate (src/internal/gate/gate.go)
    now,            \* the wall clock
    handlers,       \* one HandleWebSocket call per accepted connection, with its Connection
    connections,    \* the connection table: connection id -> Connection (a handler index)
    messageC,       \* the fan-in channel
    gateStopC,      \* Gate.stopC is closed
    heartbeat,      \* position of the heartbeatLoop goroutine and its ticker
    frameLog,       \* history: what became of every frame read
    delivered,      \* history: messages received by processMessages, in order
    lastUpgrade,    \* history: the last upgrade request, its X-API-Key and the HTTP status it got
    lastParse,      \* history: the last packet given to ParsePacket, and what became of it
    \* the goroutines of main (src/unnamed/part_011) on the shared structures
    inAccess,       \* the accesses to shared structures that are in progress
    \* RelayServer (src/tabular-relay/cmd/relay/main.go)
    ctxDone,        \* RelayServer.ctx is cancelled
    dispatcher,     \* position of startMessageDispatcher
    workers,        \* the Worker goroutines: position and the job in hand
    workerPool,     \* RelayServer.workerPool: the job channels registered, by worker
    dispatches,     \* the goroutines the dispatcher started, one per message
    quits,          \* the goroutines of Worker.Stop, sending on QuitChannel
    jobLog          \* history: the messages processed, with the worker

transformerVars ==
    <<anchorMap, uuidCounter, poseLog, clearCount, lastTransform, lastNormalize>>
updaterVars ==
    <<eventQueue, lastMeshes, pendingFlush, batches, bp, updStopC, stopReturned, accepted, lastCall,
      meshEmitted>>
gateVars ==
    <<now, handlers, connections, messageC, gateStopC, heartbeat, frameLog, delivered,
      lastUpgrade, lastParse>>
serverVars ==
    <<inAccess, ctxDone, dispatcher, workers, workerPool, dispatches, quits, jobLog>>
vars == <<transformerVars, serverVars, updaterVars, gateVars>>

----------------------------------------------------------------------------
(* Bounds of the model and configuration values.                           *)

\* uuid.New() calls explored
MaxUUID == 6
\* ClearStaleSession / ClearMeshHistory calls explored per key
MaxClears == 1
\* events handed to Updater.ProcessEvent
MaxEvents == 4
\* batch.max_size
batchSize == 2
\* websocket.buffer_size
bufferSize == 1
\* websocket.heartbeat_interval, in clock units
heartbeatInterval == 1
\* the clock stops advancing here
MaxTime == 4
\* connections accepted
MaxConns == 2
\* frames read over all connections
MaxFrames == 2
\* worker_threads
WorkerThreads == 2
\* messages the dispatcher takes from the message queue
MaxMessages == 3

\* cleanupStaleConnections: staleThreshold = now - heartbeatInterval * 3
StaleFactor == 3
\* http.StatusOK
StatusOK == 200
\* http.StatusUnauthorized
StatusUnauthorized == 401
\* the status of a completed WebSocket upgrade (websocket.Accept)
StatusSwitchingProtocols == 101

----------------------------------------------------------------------------
(* Helpers on Go values.                                                   *)

NilPtr == <<>>
Ptr(v) == <<v>>
Deref(p) == p[1]

\* a Go map as a function on its key set
MapPut(m, k, v) == [x \in (DOMAIN m) \cup {k} |-> IF x = k THEN v ELSE m[x]]
MapDelete(m, k) == [x \in (DOMAIN m) \ {k} |-> m[x]]
EmptyMap == [x \in {} |-> 0]

Range(s) == {s[i] : i \in 1..Len(s)}

RECURSIVE XorByte(_, _)
XorByte(a, b) ==
    IF a = 0 /\ b = 0 THEN 0
    ELSE (((a % 2) + (b % 2)) % 2) + 2 * XorByte(a \div 2, b \div 2)


RECURSIVE ByteSum(_)
ByteSum(s) == IF s = <<>> THEN 0 ELSE (Head(s) + ByteSum(Tail(s))) % 256

\* compress/gzip, reduced to what the callers can observe: a stream is the two
\* magic bytes, the payload and a one-byte checksum; a reader fails on a stream
\* without the magic bytes (gzip.NewReader) or with a bad checksum (ReadFrom).
GzipMagic == <<31, 139>>
GzipEncode(data) == GzipMagic \o data \o <<ByteSum(data)>>
GzipHasHeader(data) == Len(data) >= 2 /\ SubSeq(data, 1, 2) = GzipMagic
GzipBody(data) == SubSeq(data, 3, Len(data) - 1)
GzipIntact(data) ==
    /\ GzipHasHeader(data)
    /\ Len(data) >= 3
    /\ data[Len(data)] = ByteSum(GzipBody(data))

----------------------------------------------------------------------------
(* float64 arithmetic, as far as validatePose needs it.                    *)

\* F applied to the value of v, and to the values of v and w: the operand is
\* evaluated once, however often F uses it
Once(v, F(_)) == CHOOSE r \in {F(x) : x \in {v}} : TRUE
Once2(v, w, F(_, _)) == CHOOSE r \in {F(x, y) : x \in {v}, y \in {w}} : TRUE

\* natural numbers of any size as sequences of 15-bit limbs, least significant
\* first, without leading zero limbs (zero is the empty sequence)
LimbBits == 15
Limb == 32768

Trim(limbs) ==
    Once(limbs \o <<>>, LAMBDA a :
        LET used == {i \in 1..Len(a) : a[i] # 0}
        IN  IF used = {} THEN <<>>
            ELSE SubSeq(a, 1, CHOOSE i \in used : \A j \in used : j <= i))

\* the limbs of a number below 2^31
LimbsOf(n) == Trim(<<n % Limb, (n \div Limb) % Limb, n \div (Limb * Limb)>>)

LimbAt(a, i) == IF i <= Len(a) THEN a[i] ELSE 0

AddLimbs(left, right) ==
    Once2(left, right, LAMBDA a, b :
        LET n == IF Len(a) > Len(b) THEN Len(a) ELSE Len(b)
            carry[i \in 0..n] ==
                IF i = 0 THEN 0
                ELSE (LimbAt(a, i) + LimbAt(b, i) + carry[i - 1]) \div Limb
        IN  Trim([i \in 1..(n + 1) |->
                     IF i = n + 1 THEN carry[n]
                     ELSE (LimbAt(a, i) + LimbAt(b, i) + carry[i - 1]) % Limb]))

\* a times a number of at most Limb
MulSmall(limbs, factor) ==
    Once2(limbs, factor, LAMBDA a, k :
        LET n == Len(a)
            carry[i \in 0..n] ==
                IF i = 0 THEN 0 ELSE (a[i] * k + carry[i - 1]) \div Limb
        IN  Trim([i \in 1..(n + 1) |->
                     IF i = n + 1 THEN carry[n] ELSE (a[i] * k + carry[i - 1]) % Limb]))

\* a times Limb^k
ShiftLimbs(limbs, k) ==
    Once(limbs, LAMBDA a : IF a = <<>> THEN a ELSE [i \in 1..k |-> 0] \o a)

MulLimbs(left, right) ==
    Once2(left, right, LAMBDA a, b :
        LET sum[i \in 0..Len(a)] ==
                IF i = 0 THEN <<>>
                ELSE AddLimbs(sum[i - 1], ShiftLimbs(MulSmall(b, a[i]), i - 1))
        IN  sum[Len(a)])

\* the quotient and the remainder of a by a number of at most Limb, by long
\* division from the most significant limb down
DivSmall(limbs, divisor) ==
    Once2(limbs, divisor, LAMBDA a, den :
        LET n == Len(a)
            rem[i \in 1..(n + 1)] ==
                IF i = n + 1 THEN 0 ELSE (rem[i + 1] * Limb + a[i]) % den
        IN  [q |-> Trim([i \in 1..n |-> (rem[i + 1] * Limb + a[i]) \div den]),
             r |-> rem[1]])

BitLen(limbs) ==
    Once(limbs, LAMBDA a :
        IF a = <<>> THEN 0
        ELSE LimbBits * (Len(a) - 1)
               + CHOOSE k \in 1..LimbBits : 2^(k - 1) <= a[Len(a)] /\ a[Len(a)] < 2^k)

\* a * 2^k
ShiftLeft(a, k) == ShiftLimbs(MulSmall(a, 2^(k % LimbBits)), k \div LimbBits)

\* a \div 2^k, and whether bits were lost
ShiftRight(limbs, bits) ==
    Once2(limbs, bits, LAMBDA a, k :
        Once(DivSmall(IF k \div LimbBits >= Len(a) THEN <<>>
                      ELSE SubSeq(a, (k \div LimbBits) + 1, Len(a)),
                      2^(k % LimbBits)),
             LAMBDA d :
                 [q |-> d.q,
                  lost |-> d.r # 0 \/ \E i \in 1..(k \div LimbBits) : LimbAt(a, i) # 0]))

\* a < b
LessLimbs(left, right) ==
    Once2(left, right, LAMBDA a, b :
        IF Len(a) # Len(b) THEN Len(a) < Len(b)
        ELSE \E i \in 1..Len(a) : a[i] < b[i] /\ \A j \in (i + 1)..Len(a) : a[j] = b[j])

IsOdd(limbs) == Once(limbs, LAMBDA a : a # <<>> /\ a[1] % 2 = 1)

\* int64 values in two's complement: the natural numbers below 2^64 as limbs,
\* those from 2^63 on standing for the negative values
Wrap64(limbs) ==
    Once(limbs, LAMBDA a :
        Trim([i \in 1..5 |-> IF i = 5 THEN LimbAt(a, i) % 16 ELSE LimbAt(a, i)]))
Neg64(limbs) ==
    Once(limbs, LAMBDA a :
        Wrap64(AddLimbs([i \in 1..5 |-> (IF i = 5 THEN 15 ELSE Limb - 1) - LimbAt(a, i)],
                        <<1>>)))
\* the int64 of a number of less than 2^31 in magnitude
Int64(n) == IF n < 0 THEN Neg64(LimbsOf(0 - n)) ELSE LimbsOf(n)
Add64(left, right) == Wrap64(AddLimbs(left, right))
\* a times a number of at most Limb, as Go's int64 multiplication wraps
Mul64(limbs, factor) == Wrap64(MulSmall(limbs, factor))
MinInt64 == <<0, 0, 0, 0, 8>>
MaxInt64 == <<Limb - 1, Limb - 1, Limb - 1, Limb - 1, 7>>
\* a < b as signed values: the order of the values shifted by 2^63
Less64(left, right) == LessLimbs(Add64(left, MinInt64), Add64(right, MinInt64))

\* float64 values that are not negative and neither subnormal nor infinite:
\* m * 2^e with m of at most 53 bits
Precision == 53
Float64(m, e) == [m |-> m, e |-> e]
Float64Zero == Float64(<<>>, 0)

\* the mantissa `kept` and the bits cut off below it: up by one when the cut is
\* above the half, or at the half with `kept` odd
RoundedUp(kept, d, sticky) ==
    IF IsOdd(d.q) /\ (sticky \/ d.lost \/ IsOdd(kept)) THEN AddLimbs(kept, <<1>>) ELSE kept

\* round to nearest, ties to even; sticky tells that the exact value is above the
\* one given by the limbs
RoundFloat64(limbs, e, sticky) ==
    Once2(limbs, BitLen(limbs) - Precision, LAMBDA a, k :
        IF k <= 0 THEN Float64(a, e)
        ELSE Once(ShiftRight(a, k - 1), LAMBDA d :
                 Once(ShiftRight(d.q, 1).q, LAMBDA kept :
                     Once(RoundedUp(kept, d, sticky), LAMBDA m :
                         IF BitLen(m) > Precision
                         THEN Float64(ShiftRight(m, 1).q, e + k + 1)
                         ELSE Float64(m, e + k)))))

MulFloat64(left, right) ==
    Once2(left, right, LAMBDA x, y :
        IF x.m = <<>> \/ y.m = <<>> THEN Float64Zero
        ELSE RoundFloat64(MulLimbs(x.m, y.m), x.e + y.e, FALSE))

Aligned(x, e) == ShiftLeft(x.m, x.e - e)
MinExp(x, y) == IF x.m = <<>> THEN y.e ELSE IF y.m = <<>> THEN x.e
                ELSE IF x.e < y.e THEN x.e ELSE y.e

AddFloat64(left, right) ==
    Once2(left, right, LAMBDA x, y :
        IF x.m = <<>> THEN y ELSE IF y.m = <<>> THEN x
        ELSE RoundFloat64(AddLimbs(Aligned(x, MinExp(x, y)), Aligned(y, MinExp(x, y))),
                          MinExp(x, y), FALSE))

LessFloat64(left, right) ==
    Once2(left, right, LAMBDA x, y :
        LessLimbs(Aligned(x, MinExp(x, y)), Aligned(y, MinExp(x, y))))

\* the float64 nearest to the decimal n / den (strconv.ParseFloat, and the
\* compiler for a constant)
GuardBits == 60
ParseFloat64(n, den) ==
    IF n = 0 THEN Float64Zero
    ELSE Once(DivSmall(ShiftLeft(LimbsOf(n), GuardBits), den), LAMBDA d :
             RoundFloat64(d.q, 0 - GuardBits, d.r # 0))

----------------------------------------------------------------------------
(* pkg/types: packets and events.                                          *)

PoseData(x, y, z, rot) == [X |-> x, Y |-> y, Z |-> z, Rotation |-> rot]
MeshData(vertices, faces, anchor) ==
    [Vertices |-> vertices, Faces |-> faces, AnchorID |-> anchor]
StreamPacket(session, frame, ts, type, pose, mesh) ==
    [SessionID |-> session, FrameNumber |-> frame, Timestamp |-> ts,
     Type |-> type, Pose |-> pose, Mesh |-> mesh]

\* Positions are whole units; quaternion components are in tenths, so the squared
\* magnitude is in hundredths.
UnitQuat == <<0, 0, 0, 10>>
ZeroQuat == <<0, 0, 0, 0>>

\* rotations at and around the bounds of the squared magnitude: 0.9 and 1.1
\* twice each, 0.89 and 1.11
BoundQuats ==
    {<<9, 3, 0, 0>>, <<0, 7, 4, 5>>, <<10, 3, 1, 0>>, <<1, 6, 8, 3>>,
     <<8, 5, 0, 0>>, <<10, 3, 1, 1>>}
Rotations == {UnitQuat, ZeroQuat} \cup BoundQuats

Sessions == {"s1", "s2"}
SessionIDs == Sessions \cup {""}
ClientAnchors == {"a1", "a2"}

\* vertex buffers: BufB differs from BufA in one byte of six (5/6 > 0.8 match),
\* BufC in three of six (1/2 match), BufD has another length
BufA == <<0, 1, 2, 3, 4, 5>>
BufB == <<0, 1, 2, 3, 4, 9>>
BufC == <<9, 9, 9, 3, 4, 5>>
BufD == <<7, 7>>
BufE == <<0, 1, 2, 3, 4>>
BufF == <<0, 1, 2, 3, 9>>
FacesA == <<1, 2, 3>>

PosePacket(s) ==
    StreamPacket(s, 1, 1700, "pose", Ptr(PoseData(1, 2, 3, UnitQuat)), NilPtr)
MeshPacket(s, a, v, f) ==
    StreamPacket(s, 1, 1700, "mesh", NilPtr, Ptr(MeshData(v, f, a)))

----------------------------------------------------------------------------
(* Parser (src/unnamed/part_007).                                          *)

ParseError == [ok |-> FALSE]
ParseOK(packet) == [ok |-> TRUE, packet |-> packet]

\* a plausible slip: the timestamp is not checked
validatePacket_NoTimestamp(packet) ==
    /\ packet.SessionID # ""
    /\ packet.Type # ""

validatePacket(packet) ==
    /\ packet.SessionID # ""
    /\ packet.Timestamp > 0
    /\ packet.Type # ""

\* a plausible slip: only the position is checked
validatePose_OnlyPosition(pose) ==
    ~(pose.X < -1000 \/ pose.X > 1000 \/
      pose.Y < -1000 \/ pose.Y > 1000 \/
      pose.Z < -1000 \/ pose.Z > 1000)

\* the float64 a frame's JSON gives for a component written in tenths
Component64(n) == ParseFloat64(IF n < 0 THEN 0 - n ELSE n, 10)

\* line 127: qx*qx + qy*qy + qz*qz + qw*qw, every product and every sum rounded
Magnitude64(q) ==
    AddFloat64(AddFloat64(AddFloat64(MulFloat64(Component64(q[1]), Component64(q[1])),
                                     MulFloat64(Component64(q[2]), Component64(q[2]))),
                          MulFloat64(Component64(q[3]), Component64(q[3]))),
               MulFloat64(Component64(q[4]), Component64(q[4])))

\* the constants of line 128
MinMagnitude64 == ParseFloat64(9, 10)
MaxMagnitude64 == ParseFloat64(11, 10)

\* lines 126-130: the rotation passes
QuaternionNormalized(q) ==
    Once(Magnitude64(q), LAMBDA magnitude :
        ~(LessFloat64(magnitude, MinMagnitude64) \/ LessFloat64(MaxMagnitude64, magnitude)))

\* the same for the rotations the packets of this model carry, computed once
NormalizedRotations == [q \in Rotations |-> QuaternionNormalized(q)]

validatePose(pose) ==
    /\ ~(pose.X < -1000 \/ pose.X > 1000 \/
         pose.Y < -1000 \/ pose.Y > 1000 \/
         pose.Z < -1000 \/ pose.Z > 1000)
    /\ IF pose.Rotation \in DOMAIN NormalizedRotations
       THEN NormalizedRotations[pose.Rotation]
       ELSE QuaternionNormalized(pose.Rotation)

parsePosePacket(packet) ==
    IF packet.Pose = NilPtr THEN ParseError
    ELSE IF ~validatePose(Deref(packet.Pose)) THEN ParseError
    ELSE ParseOK(packet)

\* a plausible slip: when the stream breaks off, what was read so far is returned
decompressGzip_Partial(data) == IF GzipHasHeader(data) /\ Len(data) >= 3 THEN GzipBody(data) ELSE data

\* returns (data, nil) in every case: the stream's payload when it reads, the
\* input itself when gzip.NewReader or ReadFrom fails
decompressGzip(data) == IF GzipIntact(data) THEN GzipBody(data) ELSE data

decompressDraco(data) == IF Len(data) = 0 THEN data ELSE decompressGzip(data)

parseMeshPacket(packet) ==
    IF packet.Mesh = NilPtr THEN ParseError
    ELSE LET mesh == Deref(packet.Mesh) IN
         IF Len(mesh.Vertices) = 0 THEN ParseError
         ELSE IF mesh.AnchorID = "" THEN ParseError
         ELSE ParseOK([packet EXCEPT !.Mesh =
                  Ptr(MeshData(decompressDraco(mesh.Vertices),
                               IF Len(mesh.Faces) > 0
                                   THEN decompressDraco(mesh.Faces) ELSE <<>>,
                               mesh.AnchorID))])

\* a plausible slip: the decompressed buffers are written through packet.Data.Mesh
CallerPacketAfter_InPlace(packet) ==
    IF packet.Type = "mesh" /\ parseMeshPacket(packet).ok
    THEN parseMeshPacket(packet).packet
    ELSE packet

\* the packet the caller holds after ParsePacket has returned: the packet is
\* passed by value, parsePosePacket writes nothing, and parseMeshPacket points
\* Data.Mesh of its own copy to a new MeshData (lines 103-109) and writes
\* nothing through packet.Data.Mesh
CallerPacketAfter(packet) == packet

ParsePacket(packet) ==
    IF ~validatePacket(packet) THEN ParseError
    ELSE IF packet.Type = "pose" THEN parsePosePacket(packet)
    ELSE IF packet.Type = "mesh" THEN parseMeshPacket(packet)
    ELSE ParseError

----------------------------------------------------------------------------
(* Transformer (src/internal/transformer/transformer.go).                  *)

UUID(n) == <<"uuid", n>>
AnchorIDFor(n) == <<"anchor_", n>>

SpatialEvent(session, id, ts, anchors, meshes) ==
    [SessionID |-> session, EventID |-> id, Timestamp |-> ts,
     Anchors |-> anchors, Meshes |-> meshes]
Anchor(id, pose, ts) == [ID |-> id, Pose |-> pose, Timestamp |-> ts]
MeshDiff(anchor, vertices, faces, isDelta) ==
    [AnchorID |-> anchor, VerticesDelta |-> vertices, FacesDelta |-> faces,
     IsDelta |-> isDelta]

\* a plausible slip: the stored id is never looked up
getOrCreateAnchorID_NoLookup(amap, sessionID, ctr) ==
    [id |-> AnchorIDFor(ctr + 1),
     anchorMap |-> MapPut(amap, sessionID, AnchorIDFor(ctr + 1)),
     uuidCounter |-> ctr + 1]

\* a plausible slip: the new id is numbered by the size of the map instead of a uuid
getOrCreateAnchorID_BySize(amap, sessionID, ctr) ==
    IF sessionID \in DOMAIN amap
    THEN [id |-> amap[sessionID], anchorMap |-> amap, uuidCounter |-> ctr]
    ELSE LET n == Cardinality(DOMAIN amap) + 1 IN
         [id |-> AnchorIDFor(n),
          anchorMap |-> MapPut(amap, sessionID, AnchorIDFor(n)),
          uuidCounter |-> ctr]

\* returns the id, the map and the uuid counter after the call
getOrCreateAnchorID(amap, sessionID, ctr) ==
    IF sessionID \in DOMAIN amap
    THEN [id |-> amap[sessionID], anchorMap |-> amap, uuidCounter |-> ctr]
    ELSE [id |-> AnchorIDFor(ctr + 1),
          anchorMap |-> MapPut(amap, sessionID, AnchorIDFor(ctr + 1)),
          uuidCounter |-> ctr + 1]

transformPose(event, packet, amap, ctr) ==
    IF packet.Pose = NilPtr
    THEN [event |-> event, anchorMap |-> amap, uuidCounter |-> ctr]
    ELSE LET got == getOrCreateAnchorID(amap, packet.SessionID, ctr)
             anchor == Anchor(got.id, Deref(packet.Pose), packet.Timestamp)
         IN  [event |-> [event EXCEPT !.Anchors = Append(@, anchor)],
              anchorMap |-> got.anchorMap, uuidCounter |-> got.uuidCounter]

\* a plausible slip: the mesh-diff is filed under the session's anchor id
transformMesh_SessionAnchor(event, packet, amap, ctr) ==
    IF packet.Mesh = NilPtr
    THEN [event |-> event, anchorMap |-> amap, uuidCounter |-> ctr]
    ELSE LET mesh == Deref(packet.Mesh)
             got == getOrCreateAnchorID(amap, packet.SessionID, ctr)
             meshDiff == MeshDiff(got.id, mesh.Vertices, mesh.Faces, FALSE)
         IN  [event |-> [event EXCEPT !.Meshes = Append(@, meshDiff)],
              anchorMap |-> got.anchorMap, uuidCounter |-> got.uuidCounter]

transformMesh(event, packet, amap, ctr) ==
    IF packet.Mesh = NilPtr
    THEN [event |-> event, anchorMap |-> amap, uuidCounter |-> ctr]
    ELSE LET mesh == Deref(packet.Mesh)
             meshDiff == MeshDiff(mesh.AnchorID, mesh.Vertices, mesh.Faces, FALSE)
         IN  [event |-> [event EXCEPT !.Meshes = Append(@, meshDiff)],
              anchorMap |-> amap, uuidCounter |-> ctr]

\* a plausible slip: the anchor id of the session is looked up before the switch
Transform_AnchorFirst(packet, amap, ctr) ==
    LET eventID == UUID(ctr + 1)
        event == SpatialEvent(packet.SessionID, eventID, packet.Timestamp, <<>>, <<>>)
        got == getOrCreateAnchorID(amap, packet.SessionID, ctr + 1)
    IN  IF packet.Type = "pose" THEN transformPose(event, packet, amap, ctr + 1)
        ELSE IF packet.Type = "mesh" THEN transformMesh(event, packet, amap, ctr + 1)
        ELSE [event |-> event, anchorMap |-> got.anchorMap, uuidCounter |-> got.uuidCounter]

\* Transform with the map and the uuid counter it starts from: the event returned,
\* and the map and the counter it leaves
Transform(packet, amap, ctr) ==
    LET eventID == UUID(ctr + 1)
        event == SpatialEvent(packet.SessionID, eventID, packet.Timestamp, <<>>, <<>>)
    IN  IF packet.Type = "pose" THEN transformPose(event, packet, amap, ctr + 1)
        ELSE IF packet.Type = "mesh" THEN transformMesh(event, packet, amap, ctr + 1)
        ELSE [event |-> event, anchorMap |-> amap, uuidCounter |-> ctr + 1]

\* 1000000000000, the bound below which a timestamp is taken as seconds
SecondsBelow == MulSmall(MulSmall(MulSmall(LimbsOf(1000), 1000), 1000), 1000)
FutureWindow == 60000
PastWindow == 3600000

\* a plausible slip: a minute of past and an hour of future
NormalizeTimestamp_WindowsSwapped(timestamp, clock) ==
    Once2(IF Less64(timestamp, SecondsBelow) THEN Mul64(timestamp, 1000) ELSE timestamp,
          clock, LAMBDA scaled, current :
        IF \/ Less64(Add64(current, Int64(PastWindow)), scaled)
           \/ Less64(scaled, Add64(current, Int64(0 - FutureWindow)))
        THEN current ELSE scaled)

\* NormalizeTimestamp when time.Now().UnixMilli() reads clock
NormalizeTimestamp(timestamp, clock) ==
    Once2(IF Less64(timestamp, SecondsBelow) THEN Mul64(timestamp, 1000) ELSE timestamp,
          clock, LAMBDA scaled, current :
        IF \/ Less64(Add64(current, Int64(FutureWindow)), scaled)
           \/ Less64(scaled, Add64(current, Int64(0 - PastWindow)))
        THEN current ELSE scaled)

\* ValidateEvent returns nil; an id is a sequence, and <<>> is the empty string
ValidateEvent(event) ==
    /\ event.SessionID # ""
    /\ event.EventID # <<>>
    /\ event.Timestamp > 0

\* history of the anchors carried by pose events, with the number of
\* ClearStaleSession calls for the session that preceded each
PoseLogAfter(event) ==
    poseLog \cup {[SessionID |-> event.SessionID, AnchorID |-> event.Anchors[i].ID,
                   EventID |-> event.EventID,
                   epoch |-> clearCount[event.SessionID]] : i \in 1..Len(event.Anchors)}

\* a plausible slip: the map is emptied
ClearStaleSession_All(sessionID) ==
    /\ clearCount[sessionID] < MaxClears
    /\ anchorMap' = EmptyMap
    /\ clearCount' = [clearCount EXCEPT ![sessionID] = @ + 1]
    /\ UNCHANGED <<uuidCounter, poseLog, lastTransform, lastNormalize, serverVars>>

ClearStaleSession(sessionID) ==
    /\ clearCount[sessionID] < MaxClears
    /\ anchorMap' = MapDelete(anchorMap, sessionID)
    /\ clearCount' = [clearCount EXCEPT ![sessionID] = @ + 1]
    /\ UNCHANGED <<uuidCounter, poseLog, lastTransform, lastNormalize, serverVars>>

----------------------------------------------------------------------------
(* Updater (src/internal/updater/updater.go): mesh diffing.                *)

\* the similarity as the fraction matches / len; 0.0 is 0/1 and 1.0 is 1/1
calculateVertexSimilarity(a, b) ==
    IF Len(a) # Len(b) THEN [num |-> 0, den |-> 1]
    ELSE IF Len(a) = 0 THEN [num |-> 1, den |-> 1]
    ELSE [num |-> Cardinality({i \in 1..Len(a) : a[i] = b[i]}), den |-> Len(a)]

\* similarity > 0.8
MoreThan80Percent(sim) == sim.num * 10 > 8 * sim.den

createVertexDelta(old, new) ==
    IF Len(old) # Len(new) THEN new
    ELSE [i \in 1..Len(new) |-> XorByte(old[i], new[i])]

\* int(float64(n) * 0.7)
SeventyPercentOf(n) == (n * 7) \div 10

\* a plausible slip: the first mesh for an anchor is flagged as a delta
DiffMesh_FirstAsDelta(mesh, last) ==
    IF mesh.AnchorID \notin DOMAIN last
    THEN [out |-> [mesh EXCEPT !.IsDelta = TRUE],
          last |-> MapPut(last, mesh.AnchorID, mesh.VerticesDelta)]
    ELSE [out |-> mesh, last |-> MapPut(last, mesh.AnchorID, mesh.VerticesDelta)]

\* a plausible slip: the remembered buffer is only written for a first mesh
DiffMesh_NoUpdate(mesh, last) ==
    IF mesh.AnchorID \notin DOMAIN last
    THEN [out |-> mesh, last |-> MapPut(last, mesh.AnchorID, mesh.VerticesDelta)]
    ELSE [out |-> mesh, last |-> last]

\* a plausible slip: a remembered buffer of the same length always yields a delta
DiffMesh_DeltaWhenSameLength(mesh, last) ==
    IF mesh.AnchorID \in DOMAIN last /\ Len(last[mesh.AnchorID]) = Len(mesh.VerticesDelta)
    THEN [out |-> MeshDiff(mesh.AnchorID,
                           createVertexDelta(last[mesh.AnchorID], mesh.VerticesDelta),
                           mesh.FacesDelta, TRUE),
          last |-> MapPut(last, mesh.AnchorID, mesh.VerticesDelta)]
    ELSE [out |-> mesh, last |-> MapPut(last, mesh.AnchorID, mesh.VerticesDelta)]

\* one iteration of applyMeshDiffing's loop: the mesh-diff appended to
\* processedMeshes and lastMeshes after it
DiffMesh(mesh, last) ==
    IF mesh.IsDelta THEN [out |-> mesh, last |-> last]
    ELSE LET exists == mesh.AnchorID \in DOMAIN last
             lastVertices == IF exists THEN last[mesh.AnchorID] ELSE <<>>
             stored == MapPut(last, mesh.AnchorID, mesh.VerticesDelta)
         IN  IF ~exists \/ Len(lastVertices) = 0
             THEN [out |-> mesh, last |-> stored]
             ELSE LET similarity == calculateVertexSimilarity(lastVertices, mesh.VerticesDelta)
                      delta == createVertexDelta(lastVertices, mesh.VerticesDelta)
                  IN  IF /\ MoreThan80Percent(similarity)
                         /\ Len(delta) < SeventyPercentOf(Len(mesh.VerticesDelta))
                      THEN [out |-> MeshDiff(mesh.AnchorID, delta, mesh.FacesDelta, TRUE),
                            last |-> stored]
                      ELSE [out |-> mesh, last |-> stored]

\* the loop over event.Meshes: processedMeshes and lastMeshes when it ends
RECURSIVE DiffMeshes(_, _)
DiffMeshes(meshes, last) ==
    IF meshes = <<>> THEN [out |-> <<>>, last |-> last]
    ELSE LET first == DiffMesh(Head(meshes), last)
             rest == DiffMeshes(Tail(meshes), first.last)
         IN  [out |-> <<first.out>> \o rest.out, last |-> rest.last]

\* the event returned and lastMeshes after the call
applyMeshDiffing(event, last) ==
    IF Len(event.Meshes) = 0 THEN [event |-> event, last |-> last]
    ELSE LET done == DiffMeshes(event.Meshes, last)
         IN  [event |-> [event EXCEPT !.Meshes = done.out], last |-> done.last]

\* history: what applyMeshDiffing saw and produced for the last mesh-diff of an event
CallRecord(event, processed, last) ==
    LET n == Len(event.Meshes)
        mesh == event.Meshes[n]
        hadPrior == mesh.AnchorID \in DOMAIN last
    IN  Ptr([in |-> mesh, out |-> processed.Meshes[n], hadPrior |-> hadPrior,
             prior |-> IF hadPrior THEN last[mesh.AnchorID] ELSE <<>>])

----------------------------------------------------------------------------
(* Updater: batching and delivery.                                         *)

RECURSIVE Batched(_)
Batched(bs) == IF bs = <<>> THEN 0 ELSE Len(Head(bs).events) + Batched(Tail(bs))

\* events taken by ProcessEvent so far
Accepted == Len(eventQueue) + Batched(batches)

\* a plausible slip: flushBatch unlocks with a defer, so that queueMutex is held
\* until sendToSTAG has returned
HeldWhileSending_DeferUnlock(batch) == {"queueMutex"}

\* the mutexes the goroutine of flushBatch holds while sendToSTAG runs for its
\* batch: queueMutex is released on line 212, before the call on line 215
HeldWhileSending(batch) == {}

\* the mutexes a HandleWebSocket call holds while it waits in wsjson.Read:
\* addConnection has returned, and the loop of lines 95-128 takes no lock
HeldWhileReading(h) == {}

SendInProgress == \E i \in 1..Len(batches) : batches[i].state = "sending"
ReadInProgress == \E h \in 1..Len(handlers) : handlers[h].pc = "read"

\* the mutexes held by a goroutine that waits for the sink or for a client
Held ==
    UNION ({HeldWhileSending(batches[i]) :
                i \in {k \in 1..Len(batches) : batches[k].state = "sending"}}
           \cup {HeldWhileReading(h) :
                     h \in {k \in 1..Len(handlers) : handlers[k].pc = "read"}})

\* Lock and RLock return once no other goroutine holds the mutex
Lock(mutex) == mutex \notin Held

\* a plausible slip: the new event is put at the head of the queue
Enqueue_AtHead(processedEvent) ==
    /\ eventQueue' = <<processedEvent>> \o eventQueue
    /\ pendingFlush' = IF Len(eventQueue) + 1 >= batchSize
                       THEN pendingFlush + 1 ELSE pendingFlush

\* lines 71-81: append under queueMutex, and start a flush goroutine when full
Enqueue(processedEvent) ==
    /\ eventQueue' = Append(eventQueue, processedEvent)
    /\ pendingFlush' = IF Len(eventQueue) + 1 >= batchSize
                       THEN pendingFlush + 1 ELSE pendingFlush

ProcessEvent(event) ==
    LET diffed == applyMeshDiffing(event, lastMeshes)
        processedEvent == diffed.event
    IN  /\ Accepted < MaxEvents
        /\ Lock("meshMutex")
        /\ Lock("queueMutex")
        /\ lastMeshes' = diffed.last
        /\ lastCall' = IF Len(event.Meshes) = 0 THEN lastCall
                       ELSE CallRecord(event, processedEvent, lastMeshes)
        /\ meshEmitted' = meshEmitted \cup
               {processedEvent.Meshes[i].AnchorID : i \in 1..Len(processedEvent.Meshes)}
        /\ Enqueue(processedEvent)
        /\ accepted' = accepted \cup {processedEvent.EventID}
        /\ UNCHANGED <<batches, bp, updStopC, stopReturned>>

ClearMeshHistory(anchorID) ==
    /\ Lock("meshMutex")
    /\ lastMeshes' = MapDelete(lastMeshes, anchorID)
    /\ meshEmitted' = meshEmitted \ {anchorID}
    /\ UNCHANGED <<eventQueue, pendingFlush, batches, bp, updStopC, stopReturned, accepted, lastCall>>

\* a batch formed by flushBatch: its events, what triggered the flush, where its
\* delivery stands, the sink's response and the number of requests made for it
Batch(events, by) ==
    [events |-> events, by |-> by, state |-> "sending", status |-> NilPtr, sends |-> 0]

\* a plausible slip: the queue is copied but not cleared
TakeQueue_NoClear(by) ==
    /\ Lock("queueMutex")
    /\ IF Len(eventQueue) = 0
       THEN UNCHANGED <<eventQueue, batches>>
       ELSE /\ batches' = Append(batches, Batch(eventQueue, by))
            /\ UNCHANGED eventQueue

\* a plausible slip: an empty queue is flushed like any other
TakeQueue_NoEmptyCheck(by) ==
    /\ Lock("queueMutex")
    /\ batches' = Append(batches, Batch(eventQueue, by))
    /\ eventQueue' = <<>>

\* flushBatch, lines 202-212: under queueMutex, return on an empty queue, else
\* copy the events and clear the queue
TakeQueue(by) ==
    /\ Lock("queueMutex")
    /\ IF Len(eventQueue) = 0
       THEN UNCHANGED <<eventQueue, batches>>
       ELSE /\ batches' = Append(batches, Batch(eventQueue, by))
            /\ eventQueue' = <<>>

Start ==
    /\ bp = "idle"
    /\ bp' = "select"
    /\ UNCHANGED <<eventQueue, lastMeshes, pendingFlush, batches, updStopC, stopReturned, accepted, lastCall, meshEmitted>>

\* Stop, line 62: close(u.stopC)
Stop ==
    /\ ~updStopC
    /\ updStopC' = TRUE
    /\ UNCHANGED <<eventQueue, lastMeshes, pendingFlush, batches, bp, stopReturned, accepted,
                   lastCall, meshEmitted>>

\* Stop, line 63: u.wg.Wait() returns once batchProcessor, the one goroutine
\* counted by wg, has returned (or was never started)
StopReturn ==
    /\ updStopC
    /\ ~stopReturned
    /\ bp \in {"idle", "done"}
    /\ stopReturned' = TRUE
    /\ UNCHANGED <<eventQueue, lastMeshes, pendingFlush, batches, bp, updStopC, accepted,
                   lastCall, meshEmitted>>

\* a plausible slip: the tick flushes only a queue that has reached batchSize
TickerFlush_OnlyFull ==
    /\ bp = "select"
    /\ Len(eventQueue) >= batchSize
    /\ TakeQueue("ticker")
    /\ bp' = "sendTicker"
    /\ UNCHANGED <<lastMeshes, pendingFlush, updStopC, stopReturned, accepted, lastCall, meshEmitted>>

\* batchProcessor, case <-ticker.C
TickerFlush ==
    /\ bp = "select"
    /\ TakeQueue("ticker")
    /\ bp' = IF Len(eventQueue) = 0 THEN "select" ELSE "sendTicker"
    /\ UNCHANGED <<lastMeshes, pendingFlush, updStopC, stopReturned, accepted, lastCall, meshEmitted>>

\* batchProcessor, case <-u.stopC
FinalFlush ==
    /\ bp = "select"
    /\ updStopC
    /\ TakeQueue("final")
    /\ bp' = IF Len(eventQueue) = 0 THEN "done" ELSE "sendFinal"
    /\ UNCHANGED <<lastMeshes, pendingFlush, updStopC, stopReturned, accepted, lastCall, meshEmitted>>

\* a goroutine started by ProcessEvent's `go u.flushBatch()` takes queueMutex
SizeFlush ==
    /\ pendingFlush > 0
    /\ pendingFlush' = pendingFlush - 1
    /\ TakeQueue("size")
    /\ UNCHANGED <<lastMeshes, bp, updStopC, stopReturned, accepted, lastCall, meshEmitted>>

\* compressMeshData: gzip of a non-empty buffer
compressMeshData(vertices) == IF Len(vertices) = 0 THEN vertices ELSE GzipEncode(vertices)

CompressEvent(event) ==
    [event EXCEPT !.Meshes =
        [j \in 1..Len(event.Meshes) |->
            [event.Meshes[j] EXCEPT !.VerticesDelta = compressMeshData(@)]]]

\* the body POSTed to <stagURL>/ingest (without its dispatch timestamp)
StagRequest(events) ==
    [events |-> [i \in 1..Len(events) |-> CompressEvent(events[i])],
     count |-> Len(events)]

\* 0 stands for a transport error of httpClient.Do
HttpOutcomes == {0, 200, 204, 500}

\* the sink of the batching runs: it accepts with 200 or fails with 500
SinkOutcomes == {200, 500}

\* sendToSTAG returns nil
Delivered(status) == status = StatusOK

\* a plausible slip: the events of a failed batch go back to the queue
SendToSTAG_Requeue(i, status) ==
    /\ i \in 1..Len(batches)
    /\ batches[i].state = "sending"
    /\ batches' = [batches EXCEPT ![i] =
           [@ EXCEPT !.state = IF Delivered(status) THEN "ok" ELSE "failed",
                     !.status = Ptr(status),
                     !.sends = @ + 1]]
    /\ eventQueue' = IF Delivered(status) THEN eventQueue ELSE batches[i].events \o eventQueue
    /\ bp' = CASE batches[i].by = "ticker" -> "select"
               [] batches[i].by = "final" -> "done"
               [] OTHER -> bp
    /\ UNCHANGED <<lastMeshes, pendingFlush, updStopC, stopReturned, accepted, lastCall, meshEmitted>>

\* flushBatch, lines 214-218, for the batch it formed: sendToSTAG returns, and a
\* batchProcessor that was flushing goes back to its select or returns
SendToSTAG(i, status) ==
    /\ i \in 1..Len(batches)
    /\ batches[i].state = "sending"
    /\ batches' = [batches EXCEPT ![i] =
           [@ EXCEPT !.state = IF Delivered(status) THEN "ok" ELSE "failed",
                     !.status = Ptr(status),
                     !.sends = @ + 1]]
    /\ bp' = CASE batches[i].by = "ticker" -> "select"
               [] batches[i].by = "final" -> "done"
               [] OTHER -> bp
    /\ UNCHANGED <<eventQueue, lastMeshes, pendingFlush, updStopC, stopReturned, accepted, lastCall, meshEmitted>>

\* the requests the sink has received
SinkRequests == {StagRequest(batches[i].events) : i \in {k \in 1..Len(batches) : batches[k].sends > 0}}

----------------------------------------------------------------------------
(* Gate (src/internal/gate/gate.go).                                       *)

\* generateConnectionID: "conn_" and time.Now().UnixNano(); the reading is the
\* clock and the nanoseconds within the clock unit
ConnectionID(t, nano) == <<"conn_", t, nano>>
generateConnectionID(nano) == ConnectionID(now, nano)

\* nanosecond readings within one clock unit
NanoReadings == {0, 1}

\* the clock does not run backwards: a reading is not below an earlier reading
ClockReading(nano) ==
    \A h \in 1..Len(handlers) :
        handlers[h].ID[2] = now => handlers[h].ID[3] <= nano

Connection(id, apiKey) ==
    [pc |-> "select", ID |-> id, SessionID |-> "", LastSeen |-> now, APIKey |-> apiKey]

Open(h) == handlers[h].pc # "done"

addConnection(table, h) == MapPut(table, handlers'[h].ID, h)
removeConnection(table, id) == MapDelete(table, id)

\* lines 69-91: the upgrade, the Connection record, its registration
Admit(apiKey, nano) ==
    /\ Len(handlers) < MaxConns
    /\ Lock("mutex")
    /\ ClockReading(nano)
    /\ handlers' = Append(handlers, Connection(generateConnectionID(nano), apiKey))
    /\ connections' = addConnection(connections, Len(handlers) + 1)
    /\ lastUpgrade' = Ptr([apiKey |-> apiKey, status |-> StatusSwitchingProtocols])
    /\ UNCHANGED <<now, messageC, gateStopC, heartbeat, frameLog, delivered, lastParse>>

\* a plausible slip: the API key check is left out
HandleWebSocket_NoKeyCheck(apiKey, nano) == Admit(apiKey, nano)

\* lines 62-91: the API key check, then the upgrade
HandleWebSocket(apiKey, nano) ==
    IF apiKey = ""
    THEN /\ lastUpgrade' = Ptr([apiKey |-> apiKey, status |-> StatusUnauthorized])
         /\ UNCHANGED <<now, handlers, connections, messageC, gateStopC, heartbeat,
                        frameLog, delivered, lastParse>>
    ELSE Admit(apiKey, nano)

\* a plausible slip: the return leaves the table entry behind
Return_NoRemove(h) ==
    /\ Lock("mutex")
    /\ handlers' = [handlers EXCEPT ![h].pc = "done"]
    /\ UNCHANGED connections

\* the return of HandleWebSocket: the deferred removeConnection(conn.ID)
Return(h) ==
    /\ Lock("mutex")
    /\ handlers' = [handlers EXCEPT ![h].pc = "done"]
    /\ connections' = removeConnection(connections, handlers[h].ID)

\* lines 96-99: the select on stopC, with the read as its default
SelectStop(h) ==
    /\ h \in 1..Len(handlers)
    /\ handlers[h].pc = "select"
    /\ IF gateStopC
       THEN Return(h)
       ELSE /\ handlers' = [handlers EXCEPT ![h].pc = "read"]
            /\ UNCHANGED connections
    /\ UNCHANGED <<now, messageC, gateStopC, heartbeat, frameLog, delivered, lastUpgrade, lastParse>>

\* without its Timestamp, which nothing reads; seq numbers the frames read
MessageEvent(id, packet, seq) == [ConnectionID |-> id, Packet |-> packet, seq |-> seq]

\* the history entry of a frame: its number, its reader's connection id, its
\* session id, whether it was put on the channel, what the channel held, and
\* whether the frame decoded
FrameRecord(msg, queued) ==
    [seq |-> msg.seq, from |-> msg.ConnectionID, session |-> msg.Packet.SessionID,
     queued |-> queued, before |-> Len(messageC), decoded |-> TRUE]

\* the entry of a frame that did not decode into a StreamPacket
UndecodedRecord(h) ==
    [seq |-> Len(frameLog) + 1, from |-> handlers[h].ID, session |-> "",
     queued |-> FALSE, before |-> Len(messageC), decoded |-> FALSE]

\* a plausible slip: a plain channel send, which waits for room
forwardMessage_Blocking(msg) ==
    /\ Len(messageC) < bufferSize
    /\ messageC' = Append(messageC, msg)
    /\ frameLog' = Append(frameLog, FrameRecord(msg, TRUE))

\* lines 118-126: the select with a default: send when the channel has room,
\* else drop
forwardMessage(msg) ==
    IF Len(messageC) < bufferSize
    THEN /\ messageC' = Append(messageC, msg)
         /\ frameLog' = Append(frameLog, FrameRecord(msg, TRUE))
    ELSE /\ messageC' = messageC
         /\ frameLog' = Append(frameLog, FrameRecord(msg, FALSE))

\* a plausible slip: every frame with a session id binds it again
ReadFrame_Rebind(h, packet) ==
    /\ h \in 1..Len(handlers)
    /\ handlers[h].pc = "read"
    /\ Len(frameLog) < MaxFrames
    /\ handlers' = [handlers EXCEPT
           ![h].SessionID = IF packet.SessionID # "" THEN packet.SessionID ELSE @,
           ![h].LastSeen = now,
           ![h].pc = "select"]
    /\ forwardMessage(MessageEvent(handlers[h].ID, packet, Len(frameLog) + 1))
    /\ UNCHANGED <<now, connections, gateStopC, heartbeat, delivered, lastUpgrade, lastParse>>

\* lines 100-127: wsjson.Read returns a packet; bind the session, refresh
\* LastSeen, forward
ReadFrame(h, packet) ==
    /\ h \in 1..Len(handlers)
    /\ handlers[h].pc = "read"
    /\ Len(frameLog) < MaxFrames
    /\ handlers' = [handlers EXCEPT
           ![h].SessionID = IF packet.SessionID # "" /\ @ = "" THEN packet.SessionID ELSE @,
           ![h].LastSeen = now,
           ![h].pc = "select"]
    /\ forwardMessage(MessageEvent(handlers[h].ID, packet, Len(frameLog) + 1))
    /\ UNCHANGED <<now, connections, gateStopC, heartbeat, delivered, lastUpgrade, lastParse>>

\* lines 101-109 for a frame that does not decode: wsjson.Read returns the
\* error of json.Unmarshal, and the handler returns as on any other error
ReadUndecodable(h) ==
    /\ h \in 1..Len(handlers)
    /\ handlers[h].pc = "read"
    /\ Len(frameLog) < MaxFrames
    /\ frameLog' = Append(frameLog, UndecodedRecord(h))
    /\ Return(h)
    /\ UNCHANGED <<now, messageC, gateStopC, heartbeat, delivered, lastUpgrade, lastParse>>

\* lines 101-109: wsjson.Read returns an error (a close, a failed read, a frame
\* that does not decode)
ReadError(h) ==
    /\ h \in 1..Len(handlers)
    /\ handlers[h].pc = "read"
    /\ Return(h)
    /\ UNCHANGED <<now, messageC, gateStopC, heartbeat, frameLog, delivered, lastUpgrade, lastParse>>

GetActiveConnections == Cardinality(DOMAIN connections)

\* the connections of the table whose SessionID is sessionID
GetConnectionsBySession(sessionID) ==
    {connections[id] : id \in {i \in DOMAIN connections :
                                  handlers[connections[i]].SessionID = sessionID}}

\* Start, which main and the tests call right after New, before the first
\* connection is served; the clock counts from that moment
GateStart ==
    /\ heartbeat.state = "idle"
    /\ handlers = <<>>
    /\ now = 0
    /\ heartbeat' = [state |-> "running", due |-> FALSE, start |-> now]
    /\ UNCHANGED <<now, handlers, connections, messageC, gateStopC, frameLog, delivered, lastUpgrade, lastParse>>

GateStop ==
    /\ ~gateStopC
    /\ gateStopC' = TRUE
    /\ UNCHANGED <<now, handlers, connections, messageC, heartbeat, frameLog, delivered, lastUpgrade, lastParse>>

\* conn.LastSeen.Before(staleThreshold)
Stale(h) == handlers[h].LastSeen < now - heartbeatInterval * StaleFactor

\* a plausible slip: a connection exactly at the threshold counts as stale
cleanupStaleConnections_AtThreshold(table) ==
    [id \in {i \in DOMAIN table :
                 handlers[table[i]].LastSeen > now - heartbeatInterval * StaleFactor} |-> table[id]]

\* the table after the sweep
cleanupStaleConnections(table) ==
    [id \in {i \in DOMAIN table : ~Stale(table[i])} |-> table[id]]

\* heartbeatLoop, case <-ticker.C
HeartbeatTick ==
    /\ heartbeat.state = "running"
    /\ heartbeat.due
    /\ Lock("mutex")
    /\ connections' = cleanupStaleConnections(connections)
    /\ heartbeat' = [heartbeat EXCEPT !.due = FALSE]
    /\ UNCHANGED <<now, handlers, messageC, gateStopC, frameLog, delivered, lastUpgrade, lastParse>>

\* heartbeatLoop, case <-g.stopC
HeartbeatStop ==
    /\ heartbeat.state = "running"
    /\ gateStopC
    /\ heartbeat' = [heartbeat EXCEPT !.state = "done"]
    /\ UNCHANGED <<now, handlers, connections, messageC, gateStopC, frameLog, delivered, lastUpgrade, lastParse>>

\* time passes; the ticker of a running heartbeatLoop fires every heartbeatInterval
AdvanceClock ==
    /\ now < MaxTime
    /\ now' = now + 1
    /\ heartbeat' = IF /\ heartbeat.state = "running"
                       /\ (now + 1 - heartbeat.start) % heartbeatInterval = 0
                    THEN [heartbeat EXCEPT !.due = TRUE]
                    ELSE heartbeat
    /\ UNCHANGED <<handlers, connections, messageC, gateStopC, frameLog, delivered, lastUpgrade, lastParse>>

----------------------------------------------------------------------------
(* The pipeline of processMessages (src/unnamed/part_011) and direct calls.*)

\* Transformer.Transform as a step: the state it leaves and the event it returns
TransformStep(packet) ==
    LET r == Transform(packet, anchorMap, uuidCounter)
    IN  /\ anchorMap' = r.anchorMap
        /\ uuidCounter' = r.uuidCounter
        /\ poseLog' = PoseLogAfter(r.event)
        /\ lastTransform' = Ptr([packet |-> packet, event |-> r.event])
        /\ UNCHANGED <<clearCount, lastNormalize, serverVars>>

\* the body of the loop, lines 156-177: Parser, Transformer, Updater, inline
Pipeline(packet) ==
    LET parsed == ParsePacket(packet)
    IN  IF ~parsed.ok
        THEN UNCHANGED <<transformerVars, serverVars, updaterVars>>
        ELSE /\ TransformStep(parsed.packet)
             /\ ProcessEvent(Transform(parsed.packet, anchorMap, uuidCounter).event)

\* packets given to Transform directly, as the unit tests do
TransformerPackets ==
    {PosePacket(s) : s \in Sessions}
    \cup {MeshPacket("s1", "a1", BufA, FacesA),
          StreamPacket("s1", 1, 1700, "pose", NilPtr, NilPtr),
          StreamPacket("s2", 1, 1700, "other", NilPtr, NilPtr)}

TransformCall(packet) ==
    /\ uuidCounter + 2 <= MaxUUID
    /\ TransformStep(packet)
    /\ UNCHANGED <<updaterVars, gateVars>>

\* server clocks in seconds: one of November 2026, one an hour after
\* 1000000000000 ms (September 2001), one 1000 s after it, and one two hours
\* after the epoch
ClockSeconds == {1762383600, 1000003600, 1000001000, 7200}
ClockMilli(seconds) == MulSmall(LimbsOf(seconds), 1000)

\* a timestamp whose product with 1000 wraps around to the clock of 2026:
\* -9223372035092392208
WrappingTimestamp == <<22256, 21015, 1, 0, 8>>

\* timestamps for a clock: in milliseconds and in seconds at and around the
\* clock and the ends of the window, at and around the bound of the seconds,
\* around zero, the extremes of int64 and one whose product wraps
Timestamps(seconds) ==
    {Add64(ClockMilli(seconds), Int64(d)) :
        d \in {-3600001, -3600000, -3599999, -1000, -1, 0, 1, 1000, 59999, 60000, 60001,
               120000}}
    \cup {Int64(seconds + d) : d \in {-3601, -3600, -3599, -1, 0, 1, 59, 60, 61, 120}}
    \cup {Add64(SecondsBelow, Int64(d)) : d \in {-1, 0, 1}}
    \cup {Int64(d) : d \in {-1, 0, 1, 999999999, 1000000000}}
    \cup {MinInt64, MaxInt64, WrappingTimestamp}

\* NormalizeTimestamp called, and called again on its result at the same clock
NormalizeTimestampCall(timestamp, clock) ==
    /\ lastNormalize' =
           Ptr([timestamp |-> timestamp, clock |-> clock,
                result |-> NormalizeTimestamp(timestamp, clock),
                again |-> NormalizeTimestamp(NormalizeTimestamp(timestamp, clock), clock)])
    /\ UNCHANGED <<anchorMap, uuidCounter, poseLog, clearCount, lastTransform, serverVars,
                   updaterVars, gateVars>>

ClearStaleSessionCall(sessionID) ==
    /\ ClearStaleSession(sessionID)
    /\ UNCHANGED <<updaterVars, gateVars>>

\* packets that reach the Updater through the pipeline: for the batching, a pose
\* and a mesh; for the mesh diffing, meshes that repeat, nearly repeat and replace
\* a buffer
UpdaterPackets == {PosePacket("s1"), MeshPacket("s1", "a1", BufA, FacesA)}
MeshPackets ==
    {MeshPacket("s1", "a1", v, FacesA) : v \in {BufA, BufB, BufC, BufD}}
    \cup {MeshPacket("s2", "a2", BufA, <<>>)}

\* mesh packets of one anchor whose buffers differ in length, match in half of
\* the positions, in five of six, and in exactly four of five
ThresholdPackets ==
    {MeshPacket("s1", "a1", v, FacesA) : v \in {BufA, BufB, BufC, BufD, BufE, BufF}}

PipelineCall(packet) ==
    /\ Pipeline(packet)
    /\ UNCHANGED gateVars

\* Transform and then ProcessEvent on a packet that did not pass the parser, as
\* a caller of the two packages can (the Transformer's tests build such packets)
EventCall(packet) ==
    /\ TransformStep(packet)
    /\ ProcessEvent(Transform(packet, anchorMap, uuidCounter).event)
    /\ UNCHANGED gateVars

\* a pose packet, and a packet of unknown type, for which Transform returns an
\* event without anchors and meshes
EventPackets == {PosePacket("s1"), StreamPacket("s2", 1, 1700, "other", NilPtr, NilPtr)}

\* what the loop body did with a packet: the result and the error of ParsePacket
\* (line 158), the packet the caller holds afterwards, and whether the
\* Transformer drew an event id and the Updater queued the event
ParseRecord(packet) ==
    Ptr([packet |-> packet,
         out |-> ParsePacket(packet),
         caller |-> CallerPacketAfter(packet),
         err |-> ~ParsePacket(packet).ok,
         transformed |-> uuidCounter' # uuidCounter,
         queued |-> accepted' # accepted])

\* the loop body on a packet of any shape
ParseCall(packet) ==
    /\ Pipeline(packet)
    /\ lastParse' = ParseRecord(packet)
    /\ UNCHANGED <<now, handlers, connections, messageC, gateStopC, heartbeat, frameLog,
                   delivered, lastUpgrade>>

\* a gzip stream whose checksum does not fit its payload
GzipCorrupt(data) == GzipMagic \o data \o <<(ByteSum(data) + 1) % 256>>

\* mesh packets whose vertex or face buffer is raw, a gzip stream, a gzip stream
\* of nothing, a broken gzip stream or a bare gzip header; a pose packet; and a
\* mesh packet the parser rejects
CompressedPackets ==
    {MeshPacket("s1", "a1", v, FacesA) :
        v \in {BufA, GzipEncode(BufA), GzipEncode(<<>>), GzipCorrupt(BufD), GzipMagic}}
    \cup {MeshPacket("s1", "a1", BufA, f) :
              f \in {<<>>, GzipEncode(FacesA), GzipCorrupt(FacesA)}}
    \cup {PosePacket("s1"), MeshPacket("s1", "", BufA, FacesA)}

\* packets for the event invariants: a pose and a mesh the parser accepts, and
\* pose packets without a session id, with a timestamp of zero and below, and
\* without a type
PipelinePackets ==
    {PosePacket("s1"), MeshPacket("s1", "a1", BufA, FacesA)}
    \cup {StreamPacket(d[1], 1, d[2], d[3], Ptr(PoseData(1, 2, 3, UnitQuat)), NilPtr) :
              d \in {<<"", 1700, "pose">>, <<"s1", 0, "pose">>, <<"s1", -1, "pose">>,
                      <<"s1", 1700, "">>}}

\* packets of every shape the parser tells apart: with and without a session
\* id, a timestamp above, at and below zero, the two types, another and none, and
\* each payload absent, well formed and not
ParserPoses ==
    {Ptr(PoseData(1, 2, 3, UnitQuat)),
     Ptr(PoseData(1001, 2, 3, UnitQuat)),
     Ptr(PoseData(1, 2, 3, ZeroQuat))}
ParserMeshes ==
    {Ptr(MeshData(BufA, FacesA, "a1")),
     Ptr(MeshData(BufA, FacesA, "")),
     Ptr(MeshData(<<>>, FacesA, "a1")),
     Ptr(MeshData(BufA, <<>>, "a1"))}
ParserPayloads ==
    {<<NilPtr, NilPtr>>, <<Ptr(PoseData(1, 2, 3, UnitQuat)), Ptr(MeshData(BufA, FacesA, "a1"))>>}
    \cup {<<pose, NilPtr>> : pose \in ParserPoses}
    \cup {<<NilPtr, mesh>> : mesh \in ParserMeshes}
ParserPackets ==
    {StreamPacket(s, 1, ts, type, d[1], d[2]) :
        s \in {"s1", ""}, ts \in {1700, 0}, type \in {"pose", "mesh", "other"},
        d \in ParserPayloads}
    \cup {StreamPacket("s1", 1, -1, "pose", Ptr(PoseData(1, 2, 3, UnitQuat)), NilPtr),
          StreamPacket("s1", 1, 1700, "", Ptr(PoseData(1, 2, 3, UnitQuat)), NilPtr)}

\* pose packets at and around the bounds of the validation: one position
\* component at a time at -1001, -1000, 1000 and 1001, with every rotation
BoundPositions ==
    {<<0, 0, 0>>}
    \cup UNION {{<<v, 0, 0>>, <<0, v, 0>>, <<0, 0, v>>} : v \in {-1001, -1000, 1000, 1001}}
BoundPosePackets ==
    {StreamPacket("s1", 1, 1700, "pose", Ptr(PoseData(p[1], p[2], p[3], q)), NilPtr) :
        p \in BoundPositions, q \in Rotations}

\* frames the clients send
GatePackets == {PosePacket("s1"), PosePacket("s2")}

\* frames for the session binding: also one without a session id
SessionPackets ==
    GatePackets \cup {StreamPacket("", 1, 1700, "pose", Ptr(PoseData(1, 2, 3, UnitQuat)), NilPtr)}

APIKeys == {"", "test-key"}

\* a plausible slip: the message is read without being taken off the channel
Receive_Peek(channel) == channel

\* the channel after the receive of `for msg := range gateInstance.Messages()`
Receive(channel) == Tail(channel)

\* processMessages, one turn of its loop: receive a message, run the pipeline
ProcessMessages ==
    /\ messageC # <<>>
    /\ messageC' = Receive(messageC)
    /\ delivered' = Append(delivered, Head(messageC).seq)
    /\ Pipeline(Head(messageC).Packet)
    /\ lastParse' = ParseRecord(Head(messageC).Packet)
    /\ UNCHANGED <<now, handlers, connections, gateStopC, heartbeat, frameLog, lastUpgrade>>

----------------------------------------------------------------------------
(* The goroutines of main (src/unnamed/part_011) on the shared structures: *)
(* which structure each operation reads and writes, and which mutex it     *)
(* holds meanwhile.                                                        *)

Access(task, op, reads, writes, mutex, mode) ==
    [task |-> task, op |-> op, reads |-> reads, writes |-> writes, mutex |-> mutex,
     mode |-> mode]

\* a goroutine that runs once, and a structure of which there is one
Goroutine(name) == <<name, 0>>
Shared(name) == <<name, 0>>

\* the Connection record of the h-th connection
ConnectionRecord(h) == <<"Connection", h>>
ConnectionRecords == {ConnectionRecord(h) : h \in 1..MaxConns}

\* HandleWebSocket of the h-th connection: addConnection and removeConnection
\* lock g.mutex (gate.go:153-164); the read loop sets conn.SessionID and
\* conn.LastSeen with no lock (111-115)
HandlerAccesses(h) ==
    LET task == <<"HandleWebSocket", h>> IN
    {Access(task, "addConnection", {}, {Shared("connections")}, "mutex", "Lock"),
     Access(task, "readLoop", {ConnectionRecord(h)}, {ConnectionRecord(h)}, "", ""),
     Access(task, "removeConnection", {}, {Shared("connections")}, "mutex", "Lock")}

\* heartbeatLoop: cleanupStaleConnections reads every conn.LastSeen and deletes
\* from the table under g.mutex (gate.go:185-192)
HeartbeatAccesses ==
    {Access(Goroutine("heartbeatLoop"), "cleanupStaleConnections",
            {Shared("connections")} \cup ConnectionRecords, {Shared("connections")},
            "mutex", "Lock")}

\* the /health and /status handlers: GetActiveConnections under RLock (132-136)
RouterAccesses ==
    {Access(Goroutine("router"), "GetActiveConnections", {Shared("connections")}, {},
            "mutex", "RLock")}

\* processMessages: getOrCreateAnchorID reads and writes anchorMap with no lock
\* (transformer.go:90-98), applyMeshDiffing holds meshMutex (updater.go:90-91),
\* ProcessEvent appends under queueMutex (71-74)
PipelineAccesses ==
    LET task == Goroutine("processMessages") IN
    {Access(task, "getOrCreateAnchorID", {Shared("anchorMap")}, {Shared("anchorMap")}, "", ""),
     Access(task, "applyMeshDiffing", {Shared("lastMeshes")}, {Shared("lastMeshes")},
            "meshMutex", "Lock"),
     Access(task, "ProcessEvent", {Shared("eventQueue")}, {Shared("eventQueue")},
            "queueMutex", "Lock")}

\* batchProcessor: flushBatch copies and clears the queue under queueMutex
\* (updater.go:202-212)
FlushAccesses ==
    {Access(Goroutine("batchProcessor"), "flushBatch", {Shared("eventQueue")},
            {Shared("eventQueue")}, "queueMutex", "Lock")}

Accesses ==
    UNION {HandlerAccesses(h) : h \in 1..MaxConns}
    \cup HeartbeatAccesses \cup RouterAccesses \cup PipelineAccesses \cup FlushAccesses

\* Lock waits for every holder of the mutex, RLock for the holders of Lock
MutexFree(access) ==
    CASE access.mode = "Lock" -> \A b \in inAccess : b.mutex # access.mutex
      [] access.mode = "RLock" ->
             \A b \in inAccess : b.mutex = access.mutex => b.mode = "RLock"
      [] OTHER -> TRUE

\* a goroutine that is in no operation starts one, taking its mutex if it has one
BeginAccess(access) ==
    /\ \A b \in inAccess : b.task # access.task
    /\ MutexFree(access)
    /\ inAccess' = inAccess \cup {access}
    /\ UNCHANGED <<ctxDone, dispatcher, workers, workerPool, dispatches, quits, jobLog>>

\* the operation ends and releases its mutex
EndAccess(access) ==
    /\ access \in inAccess
    /\ inAccess' = inAccess \ {access}
    /\ UNCHANGED <<ctxDone, dispatcher, workers, workerPool, dispatches, quits, jobLog>>

----------------------------------------------------------------------------
(* RelayServer and its worker pool (src/tabular-relay/cmd/relay/main.go).  *)

Workers == 1..WorkerThreads

\* the goroutine the dispatcher starts for a message: waiting for the context or
\* a job channel ("select"), sending to the job channel of `worker` ("send"),
\* returned after the send ("done") or on the cancellation ("cancelled")
Dispatch(msg) == [msg |-> msg, pc |-> "select", worker |-> 0]

\* Start, line 237: go s.startMessageDispatcher()
DispatcherStart ==
    /\ dispatcher = "idle"
    /\ dispatcher' = "select"
    /\ UNCHANGED <<inAccess, ctxDone, workers, workerPool, dispatches, quits, jobLog>>

\* Worker.Start, line 77: w.WorkerPool <- w.JobChannel, which waits while the
\* pool holds WorkerThreads channels
Register(w) ==
    /\ workers[w].pc = "register"
    /\ Len(workerPool) < WorkerThreads
    /\ workerPool' = Append(workerPool, w)
    /\ workers' = [workers EXCEPT ![w].pc = "select"]
    /\ UNCHANGED <<inAccess, ctxDone, dispatcher, dispatches, quits, jobLog>>

\* startMessageDispatcher, lines 254-263: a message is received and a goroutine
\* started for it; with the context cancelled the select may still take this case
TakeMessage ==
    /\ dispatcher = "select"
    /\ Len(dispatches) < MaxMessages
    /\ dispatches' = Append(dispatches, Dispatch(Len(dispatches) + 1))
    /\ UNCHANGED <<inAccess, ctxDone, dispatcher, workers, workerPool, quits, jobLog>>

\* startMessageDispatcher, lines 252-253: case <-s.ctx.Done()
DispatcherReturn ==
    /\ dispatcher = "select"
    /\ ctxDone
    /\ dispatcher' = "done"
    /\ UNCHANGED <<inAccess, ctxDone, workers, workerPool, dispatches, quits, jobLog>>

\* a plausible slip: the job channel is read from the pool and left in it
GetWorker_Peek(d) ==
    /\ d \in 1..Len(dispatches)
    /\ dispatches[d].pc = "select"
    /\ workerPool # <<>>
    /\ dispatches' = [dispatches EXCEPT ![d].pc = "send", ![d].worker = Head(workerPool)]
    /\ UNCHANGED <<inAccess, ctxDone, dispatcher, workers, workerPool, quits, jobLog>>

\* line 260: case jobChannel := <-s.workerPool
GetWorker(d) ==
    /\ d \in 1..Len(dispatches)
    /\ dispatches[d].pc = "select"
    /\ workerPool # <<>>
    /\ dispatches' = [dispatches EXCEPT ![d].pc = "send", ![d].worker = Head(workerPool)]
    /\ workerPool' = Tail(workerPool)
    /\ UNCHANGED <<inAccess, ctxDone, dispatcher, workers, quits, jobLog>>

\* lines 258-259: case <-s.ctx.Done()
Abandon(d) ==
    /\ d \in 1..Len(dispatches)
    /\ dispatches[d].pc = "select"
    /\ ctxDone
    /\ dispatches' = [dispatches EXCEPT ![d].pc = "cancelled"]
    /\ UNCHANGED <<inAccess, ctxDone, dispatcher, workers, workerPool, quits, jobLog>>

\* line 261 and line 80: jobChannel <- msg meets the worker's
\* case job := <-w.JobChannel; the channel has no buffer
Deliver(d) ==
    /\ d \in 1..Len(dispatches)
    /\ dispatches[d].pc = "send"
    /\ workers[dispatches[d].worker].pc = "select"
    /\ dispatches' = [dispatches EXCEPT ![d].pc = "done"]
    /\ workers' = [workers EXCEPT ![dispatches[d].worker] =
                       [pc |-> "process", job |-> Ptr(dispatches[d].msg)]]
    /\ UNCHANGED <<inAccess, ctxDone, dispatcher, workerPool, quits, jobLog>>

\* line 82: w.processMessage(job) returns, and the loop starts over
ProcessMessage(w) ==
    /\ workers[w].pc = "process"
    /\ jobLog' = Append(jobLog, [msg |-> Deref(workers[w].job), worker |-> w])
    /\ workers' = [workers EXCEPT ![w] = [pc |-> "register", job |-> NilPtr]]
    /\ UNCHANGED <<inAccess, ctxDone, dispatcher, workerPool, dispatches, quits>>

\* RelayServer.Stop, lines 316 and 331-333: s.cancel(), and Worker.Stop for every
\* worker, which starts a goroutine that sends on QuitChannel
RelayStop ==
    /\ ~ctxDone
    /\ ctxDone' = TRUE
    /\ quits' = [w \in Workers |-> "sending"]
    /\ UNCHANGED <<inAccess, dispatcher, workers, workerPool, dispatches, jobLog>>

\* line 94 and line 83: w.QuitChannel <- true meets the worker's
\* case <-w.QuitChannel, and the worker returns
Quit(w) ==
    /\ quits[w] = "sending"
    /\ workers[w].pc = "select"
    /\ quits' = [quits EXCEPT ![w] = "sent"]
    /\ workers' = [workers EXCEPT ![w].pc = "done"]
    /\ UNCHANGED <<inAccess, ctxDone, dispatcher, workerPool, dispatches, jobLog>>

----------------------------------------------------------------------------
(* Initial state and specifications.                                       *)

Init ==
    /\ anchorMap = EmptyMap
    /\ uuidCounter = 0
    /\ poseLog = {}
    /\ clearCount = [s \in SessionIDs |-> 0]
    /\ lastTransform = NilPtr
    /\ lastNormalize = NilPtr
    /\ eventQueue = <<>>
    /\ lastMeshes = EmptyMap
    /\ pendingFlush = 0
    /\ batches = <<>>
    /\ bp = "idle"
    /\ updStopC = FALSE
    /\ stopReturned = FALSE
    /\ accepted = {}
    /\ lastCall = NilPtr
    /\ meshEmitted = {}
    /\ now = 0
    /\ handlers = <<>>
    /\ connections = EmptyMap
    /\ messageC = <<>>
    /\ gateStopC = FALSE
    /\ heartbeat = [state |-> "idle", due |-> FALSE, start |-> 0]
    /\ frameLog = <<>>
    /\ delivered = <<>>
    /\ lastUpgrade = NilPtr
    /\ lastParse = NilPtr
    /\ inAccess = {}
    /\ ctxDone = FALSE
    /\ dispatcher = "idle"
    /\ workers = [w \in Workers |-> [pc |-> "register", job |-> NilPtr]]
    /\ workerPool = <<>>
    /\ dispatches = <<>>
    /\ quits = [w \in Workers |-> "idle"]
    /\ jobLog = <<>>

NextTransformer ==
    \/ \E p \in TransformerPackets : TransformCall(p)
    \/ \E s \in Sessions : ClearStaleSessionCall(s)

SpecTransformer == Init /\ [][NextTransformer]_vars

\* The goroutines of main, each starting and ending its operations in any order.
NextAccess ==
    \/ \E a \in Accesses :
           BeginAccess(a) /\ UNCHANGED <<transformerVars, updaterVars, gateVars>>
    \/ \E a \in Accesses :
           EndAccess(a) /\ UNCHANGED <<transformerVars, updaterVars, gateVars>>

SpecAccess == Init /\ [][NextAccess]_vars

\* The worker pool of a RelayServer that runs: the dispatcher, the goroutines it
\* starts and the workers.
NextPool ==
    \/ DispatcherStart /\ UNCHANGED <<transformerVars, updaterVars, gateVars>>
    \/ \E w \in Workers : Register(w) /\ UNCHANGED <<transformerVars, updaterVars, gateVars>>
    \/ TakeMessage /\ UNCHANGED <<transformerVars, updaterVars, gateVars>>
    \/ \E d \in 1..Len(dispatches) :
           GetWorker(d) /\ UNCHANGED <<transformerVars, updaterVars, gateVars>>
    \/ \E d \in 1..Len(dispatches) :
           Deliver(d) /\ UNCHANGED <<transformerVars, updaterVars, gateVars>>
    \/ \E w \in Workers :
           ProcessMessage(w) /\ UNCHANGED <<transformerVars, updaterVars, gateVars>>

SpecPool == Init /\ [][NextPool]_vars

\* The same with RelayServer.Stop at any moment.
NextPoolStop ==
    \/ NextPool
    \/ RelayStop /\ UNCHANGED <<transformerVars, updaterVars, gateVars>>
    \/ DispatcherReturn /\ UNCHANGED <<transformerVars, updaterVars, gateVars>>
    \/ \E d \in 1..Len(dispatches) :
           Abandon(d) /\ UNCHANGED <<transformerVars, updaterVars, gateVars>>
    \/ \E w \in Workers : Quit(w) /\ UNCHANGED <<transformerVars, updaterVars, gateVars>>

SpecPoolStop == Init /\ [][NextPoolStop]_vars

\* NormalizeTimestamp on its own: any timestamp at any of the clocks
NextTimestamp ==
    \E seconds \in ClockSeconds : \E timestamp \in Timestamps(seconds) :
        NormalizeTimestampCall(timestamp, ClockMilli(seconds))

SpecTimestamp == Init /\ [][NextTimestamp]_vars

NextUpdater ==
    \/ \E p \in UpdaterPackets : PipelineCall(p)
    \/ \E a \in ClientAnchors : ClearMeshHistory(a) /\ UNCHANGED <<transformerVars, serverVars, gateVars>>
    \/ Start /\ UNCHANGED <<transformerVars, serverVars, gateVars>>
    \/ Stop /\ UNCHANGED <<transformerVars, serverVars, gateVars>>
    \/ StopReturn /\ UNCHANGED <<transformerVars, serverVars, gateVars>>
    \/ TickerFlush /\ UNCHANGED <<transformerVars, serverVars, gateVars>>
    \/ FinalFlush /\ UNCHANGED <<transformerVars, serverVars, gateVars>>
    \/ SizeFlush /\ UNCHANGED <<transformerVars, serverVars, gateVars>>
    \/ \E i \in 1..Len(batches), st \in SinkOutcomes :
           SendToSTAG(i, st) /\ UNCHANGED <<transformerVars, serverVars, gateVars>>

SpecUpdater == Init /\ [][NextUpdater]_vars

\* The shutdown: as SpecUpdater with pose events, none of which arrives after
\* Stop has been called.
NextStop ==
    \/ ~updStopC /\ PipelineCall(PosePacket("s1"))
    \/ Start /\ UNCHANGED <<transformerVars, serverVars, gateVars>>
    \/ Stop /\ UNCHANGED <<transformerVars, serverVars, gateVars>>
    \/ StopReturn /\ UNCHANGED <<transformerVars, serverVars, gateVars>>
    \/ TickerFlush /\ UNCHANGED <<transformerVars, serverVars, gateVars>>
    \/ FinalFlush /\ UNCHANGED <<transformerVars, serverVars, gateVars>>
    \/ SizeFlush /\ UNCHANGED <<transformerVars, serverVars, gateVars>>
    \/ \E i \in 1..Len(batches), st \in SinkOutcomes :
           SendToSTAG(i, st) /\ UNCHANGED <<transformerVars, serverVars, gateVars>>

SpecStop == Init /\ [][NextStop]_vars

\* The delivery on its own: a started Updater that is not stopped, pose events,
\* and a sink that answers with any of the outcomes.
NextSink ==
    \/ PipelineCall(PosePacket("s1"))
    \/ Start /\ UNCHANGED <<transformerVars, serverVars, gateVars>>
    \/ TickerFlush /\ UNCHANGED <<transformerVars, serverVars, gateVars>>
    \/ SizeFlush /\ UNCHANGED <<transformerVars, serverVars, gateVars>>
    \/ \E i \in 1..Len(batches), st \in HttpOutcomes :
           SendToSTAG(i, st) /\ UNCHANGED <<transformerVars, serverVars, gateVars>>

SpecSink == Init /\ [][NextSink]_vars

\* The Updater on events made without the parser, with its flushes and a sink.
NextEmpty ==
    \/ \E p \in EventPackets : EventCall(p)
    \/ Start /\ UNCHANGED <<transformerVars, serverVars, gateVars>>
    \/ TickerFlush /\ UNCHANGED <<transformerVars, serverVars, gateVars>>
    \/ SizeFlush /\ UNCHANGED <<transformerVars, serverVars, gateVars>>
    \/ \E i \in 1..Len(batches), st \in SinkOutcomes :
           SendToSTAG(i, st) /\ UNCHANGED <<transformerVars, serverVars, gateVars>>

SpecEmpty == Init /\ [][NextEmpty]_vars

\* The whole pipeline with its flushes: the loop body of processMessages on
\* packets the parser accepts and packets it rejects, and a sink.
NextPipeline ==
    \/ \E p \in PipelinePackets : ParseCall(p)
    \/ Start /\ UNCHANGED <<transformerVars, serverVars, gateVars>>
    \/ TickerFlush /\ UNCHANGED <<transformerVars, serverVars, gateVars>>
    \/ SizeFlush /\ UNCHANGED <<transformerVars, serverVars, gateVars>>
    \/ \E i \in 1..Len(batches), st \in SinkOutcomes :
           SendToSTAG(i, st) /\ UNCHANGED <<transformerVars, serverVars, gateVars>>

SpecPipeline == Init /\ [][NextPipeline]_vars

\* The same with the scheduling the code guarantees: the ticker of a running
\* batchProcessor keeps firing, a spawned flush goroutine gets to run, and every
\* request to the sink ends, by a response or by the client's 10 s timeout.
SpecSinkLive ==
    /\ SpecSink
    /\ WF_vars(TickerFlush /\ UNCHANGED <<transformerVars, serverVars, gateVars>>)
    /\ WF_vars(SizeFlush /\ UNCHANGED <<transformerVars, serverVars, gateVars>>)
    /\ WF_vars(\E i \in 1..Len(batches), st \in HttpOutcomes :
                   SendToSTAG(i, st) /\ UNCHANGED <<transformerVars, serverVars, gateVars>>)

\* The parser in the loop of processMessages: packets of every shape, one after
\* the other, and what follows from each.
NextParser ==
    \E p \in ParserPackets : ParseCall(p)

SpecParser == Init /\ [][NextParser]_vars

\* The pose validation on its own: pose packets at and around the bounds, up to
\* the first one accepted; what the Updater holds has no part in the validation.
NextPose ==
    \E p \in BoundPosePackets : accepted = {} /\ ParseCall(p)

SpecPose == Init /\ [][NextPose]_vars

\* The parser on compressed payloads: the loop body of processMessages on mesh
\* packets with raw, compressed and broken buffers.
NextDecompress ==
    \E p \in CompressedPackets : ParseCall(p)

SpecDecompress == Init /\ [][NextDecompress]_vars

\* The shutdown of main: both components started, connections served until
\* Gate.Stop (server.Shutdown has ended the listener by then), Updater.Stop after
\* Gate.Stop. The clock and the sweeps are left out, as in SpecGate.
NextShutdown ==
    \/ GateStart /\ UNCHANGED <<transformerVars, serverVars, updaterVars>>
    \/ Start /\ UNCHANGED <<transformerVars, serverVars, gateVars>>
    \/ \E n \in NanoReadings :
           /\ heartbeat.state = "running" /\ bp # "idle" /\ ~gateStopC
           /\ HandleWebSocket("test-key", n) /\ UNCHANGED <<transformerVars, serverVars, updaterVars>>
    \/ \E h \in 1..Len(handlers) : SelectStop(h) /\ UNCHANGED <<transformerVars, serverVars, updaterVars>>
    \/ \E h \in 1..Len(handlers) :
           ReadFrame(h, PosePacket("s1")) /\ UNCHANGED <<transformerVars, serverVars, updaterVars>>
    \/ \E h \in 1..Len(handlers) : ReadError(h) /\ UNCHANGED <<transformerVars, serverVars, updaterVars>>
    \/ ProcessMessages
    \/ /\ heartbeat.state = "running" /\ bp # "idle"
       /\ GateStop /\ UNCHANGED <<transformerVars, serverVars, updaterVars>>
    \/ HeartbeatStop /\ UNCHANGED <<transformerVars, serverVars, updaterVars>>
    \/ gateStopC /\ Stop /\ UNCHANGED <<transformerVars, serverVars, gateVars>>
    \/ StopReturn /\ UNCHANGED <<transformerVars, serverVars, gateVars>>
    \/ TickerFlush /\ UNCHANGED <<transformerVars, serverVars, gateVars>>
    \/ FinalFlush /\ UNCHANGED <<transformerVars, serverVars, gateVars>>
    \/ SizeFlush /\ UNCHANGED <<transformerVars, serverVars, gateVars>>
    \/ \E i \in 1..Len(batches), st \in SinkOutcomes :
           SendToSTAG(i, st) /\ UNCHANGED <<transformerVars, serverVars, gateVars>>

SpecShutdown == Init /\ [][NextShutdown]_vars

\* The same with the scheduling the code guarantees: every goroutine that can
\* take a step gets to take it, and every request to the sink ends. What a client
\* does, sending a frame or closing, is under no obligation.
SpecShutdownLive ==
    /\ SpecShutdown
    /\ \A h \in 1..MaxConns :
           WF_vars(SelectStop(h) /\ UNCHANGED <<transformerVars, serverVars, updaterVars>>)
    /\ WF_vars(ProcessMessages)
    /\ WF_vars(HeartbeatStop /\ UNCHANGED <<transformerVars, serverVars, updaterVars>>)
    /\ WF_vars(StopReturn /\ UNCHANGED <<transformerVars, serverVars, gateVars>>)
    /\ WF_vars(FinalFlush /\ UNCHANGED <<transformerVars, serverVars, gateVars>>)
    /\ WF_vars(SizeFlush /\ UNCHANGED <<transformerVars, serverVars, gateVars>>)
    /\ WF_vars(\E i \in 1..Len(batches), st \in SinkOutcomes :
                   SendToSTAG(i, st) /\ UNCHANGED <<transformerVars, serverVars, gateVars>>)

\* The read loops with frames that do not decode among those that do.
NextDecode ==
    \/ \E n \in NanoReadings :
           HandleWebSocket("test-key", n) /\ UNCHANGED <<transformerVars, serverVars, updaterVars>>
    \/ \E h \in 1..Len(handlers) : SelectStop(h) /\ UNCHANGED <<transformerVars, serverVars, updaterVars>>
    \/ \E h \in 1..Len(handlers), p \in GatePackets :
           ReadFrame(h, p) /\ UNCHANGED <<transformerVars, serverVars, updaterVars>>
    \/ \E h \in 1..Len(handlers) :
           ReadUndecodable(h) /\ UNCHANGED <<transformerVars, serverVars, updaterVars>>
    \/ \E h \in 1..Len(handlers) : ReadError(h) /\ UNCHANGED <<transformerVars, serverVars, updaterVars>>
    \/ ProcessMessages

SpecDecode == Init /\ [][NextDecode]_vars

\* The mesh diffing on its own: the flush goroutines are left unscheduled, which
\* changes nothing that applyMeshDiffing reads or writes.
NextMesh ==
    \/ \E p \in MeshPackets : PipelineCall(p)
    \/ \E a \in ClientAnchors : ClearMeshHistory(a) /\ UNCHANGED <<transformerVars, serverVars, gateVars>>

SpecMesh == Init /\ [][NextMesh]_vars

\* The mesh diffing around its similarity threshold: mesh packets of one anchor,
\* with nothing cleared.
NextThreshold ==
    \E p \in ThresholdPackets : PipelineCall(p)

SpecThreshold == Init /\ [][NextThreshold]_vars

\* The fan-in: connections, their read loops and the consumer. The clock and the
\* heartbeat sweep are left out: they touch only LastSeen and the connection
\* table, which neither the read loops nor the consumer read.
NextGate ==
    \/ \E k \in APIKeys, n \in NanoReadings :
           HandleWebSocket(k, n) /\ UNCHANGED <<transformerVars, serverVars, updaterVars>>
    \/ \E h \in 1..Len(handlers) : SelectStop(h) /\ UNCHANGED <<transformerVars, serverVars, updaterVars>>
    \/ \E h \in 1..Len(handlers), p \in GatePackets :
           ReadFrame(h, p) /\ UNCHANGED <<transformerVars, serverVars, updaterVars>>
    \/ \E h \in 1..Len(handlers) : ReadError(h) /\ UNCHANGED <<transformerVars, serverVars, updaterVars>>
    \/ GateStop /\ UNCHANGED <<transformerVars, serverVars, updaterVars>>
    \/ ProcessMessages

SpecGate == Init /\ [][NextGate]_vars

\* The session binding: admitted connections, their read loops with frames of
\* several session ids and of none, and the consumer.
NextSession ==
    \/ \E n \in NanoReadings :
           HandleWebSocket("test-key", n) /\ UNCHANGED <<transformerVars, serverVars, updaterVars>>
    \/ \E h \in 1..Len(handlers) : SelectStop(h) /\ UNCHANGED <<transformerVars, serverVars, updaterVars>>
    \/ \E h \in 1..Len(handlers), p \in SessionPackets :
           ReadFrame(h, p) /\ UNCHANGED <<transformerVars, serverVars, updaterVars>>
    \/ \E h \in 1..Len(handlers) : ReadError(h) /\ UNCHANGED <<transformerVars, serverVars, updaterVars>>
    \/ ProcessMessages

SpecSession == Init /\ [][NextSession]_vars

\* The connection table: connections, their read loops, the clock and the
\* heartbeat sweep, with a consumer that never runs.
NextTable ==
    \/ \E k \in APIKeys, n \in NanoReadings :
           HandleWebSocket(k, n) /\ UNCHANGED <<transformerVars, serverVars, updaterVars>>
    \/ \E h \in 1..Len(handlers) : SelectStop(h) /\ UNCHANGED <<transformerVars, serverVars, updaterVars>>
    \/ \E h \in 1..Len(handlers) :
           ReadFrame(h, PosePacket("s1")) /\ UNCHANGED <<transformerVars, serverVars, updaterVars>>
    \/ \E h \in 1..Len(handlers) : ReadError(h) /\ UNCHANGED <<transformerVars, serverVars, updaterVars>>
    \/ GateStart /\ UNCHANGED <<transformerVars, serverVars, updaterVars>>
    \/ GateStop /\ UNCHANGED <<transformerVars, serverVars, updaterVars>>
    \/ HeartbeatTick /\ UNCHANGED <<transformerVars, serverVars, updaterVars>>
    \/ HeartbeatStop /\ UNCHANGED <<transformerVars, serverVars, updaterVars>>
    \/ AdvanceClock /\ UNCHANGED <<transformerVars, serverVars, updaterVars>>

SpecTable == Init /\ [][NextTable]_vars

\* The heartbeat sweep on its own: a started Gate that is not stopped, admitted
\* connections that stay open, their frames, the clock and the sweep.
NextSweep ==
    \/ \E n \in NanoReadings :
           HandleWebSocket("test-key", n) /\ UNCHANGED <<transformerVars, serverVars, updaterVars>>
    \/ \E h \in 1..Len(handlers) : SelectStop(h) /\ UNCHANGED <<transformerVars, serverVars, updaterVars>>
    \/ \E h \in 1..Len(handlers) :
           ReadFrame(h, PosePacket("s1")) /\ UNCHANGED <<transformerVars, serverVars, updaterVars>>
    \/ GateStart /\ UNCHANGED <<transformerVars, serverVars, updaterVars>>
    \/ HeartbeatTick /\ UNCHANGED <<transformerVars, serverVars, updaterVars>>
    \/ AdvanceClock /\ UNCHANGED <<transformerVars, serverVars, updaterVars>>

SpecSweep == Init /\ [][NextSweep]_vars

----------------------------------------------------------------------------
(* Claims about the Updater's batching (SpecUpdater).                      *)

\* the number of places - the pending queue and the formed batches - holding an
\* event with this id
RECURSIVE CountIn(_, _)
CountIn(id, events) ==
    IF events = <<>> THEN 0
    ELSE (IF Head(events).EventID = id THEN 1 ELSE 0) + CountIn(id, Tail(events))

RECURSIVE CountInBatches(_, _)
CountInBatches(id, bs) ==
    IF bs = <<>> THEN 0 ELSE CountIn(id, Head(bs).events) + CountInBatches(id, Tail(bs))

Places(id) == CountIn(id, eventQueue) + CountInBatches(id, batches)

\* C1: for any interleaving of ProcessEvent, size-triggered and ticker flushes,
\* every accepted event is in the pending queue or in exactly one formed batch,
\* never in two places and never in none, and every formed batch is sent to the
\* sink at most once.
C1_EventInOnePlace ==
    /\ \A id \in accepted : Places(id) = 1
    /\ \A i \in 1..Len(batches) :
          /\ batches[i].sends <= 1
          /\ batches[i].events # <<>>

\* two batches formed by different triggers, one of them sent, and an event pending
C1_Witness ==
    /\ \E i, j \in 1..Len(batches) :
          /\ batches[i].by = "size"
          /\ batches[j].by = "ticker"
          /\ batches[i].sends = 1
    /\ eventQueue # <<>>

\* C2: every batch handed to the sink contains at most batchSize events.
C2_BatchWithinSize == \A r \in SinkRequests : r.count <= batchSize

----------------------------------------------------------------------------
(* Claims about the mesh diffing (SpecMesh).                               *)

MatchingBytes(a, b) == Cardinality({i \in 1..Len(a) : a[i] = b[i]})

XorBuffers(a, b) == [i \in 1..Len(a) |-> XorByte(a[i], b[i])]

\* the last mesh-diff processed had is_delta=false and met a remembered buffer of
\* the same length with more than 0.8 of the byte positions matching
SimilarToRemembered(c) ==
    /\ ~c.in.IsDelta
    /\ c.hadPrior
    /\ Len(c.prior) = Len(c.in.VerticesDelta)
    /\ MatchingBytes(c.prior, c.in.VerticesDelta) * 10 > 8 * Len(c.prior)

\* C3: a mesh-diff with is_delta=false whose anchor has a remembered buffer of the
\* same length, more than 0.8 of it matching, is emitted with is_delta=true, the
\* vertex payload old XOR new (so payload XOR old is the incoming buffer) and the
\* incoming faces unchanged.
C3_SimilarMeshEmittedAsDelta ==
    lastCall # NilPtr =>
        LET c == Deref(lastCall) IN
        SimilarToRemembered(c) =>
            /\ c.out.IsDelta
            /\ c.out.VerticesDelta = XorBuffers(c.prior, c.in.VerticesDelta)
            /\ XorBuffers(c.out.VerticesDelta, c.prior) = c.in.VerticesDelta
            /\ c.out.FacesDelta = c.in.FacesDelta

\* C4: the first mesh-diff emitted for an anchor while no buffer is remembered for
\* it (initially, or after ClearMeshHistory) has is_delta=false and carries the
\* incoming vertex buffer unchanged.
C4_FirstMeshIsFull ==
    lastCall # NilPtr =>
        LET c == Deref(lastCall) IN
        ~c.hadPrior =>
            /\ ~c.out.IsDelta
            /\ c.out.VerticesDelta = c.in.VerticesDelta
            /\ c.out.AnchorID = c.in.AnchorID

\* a mesh emitted for an anchor that had been emitted before and cleared since
C4_Witness ==
    /\ lastCall # NilPtr
    /\ ~Deref(lastCall).hadPrior
    /\ \E i \in 1..Len(eventQueue) :
          /\ i < Len(eventQueue)
          /\ eventQueue[i].Meshes # <<>>
          /\ eventQueue[i].Meshes[1].AnchorID = Deref(lastCall).in.AnchorID

\* C5: once a mesh-diff with is_delta=false has been processed for an anchor, the
\* remembered buffer of the anchor is that mesh's incoming vertex buffer; and in
\* every state the remembered-vertex map holds one buffer for each anchor emitted
\* and not cleared since, and none for any other anchor.
C5_RememberedIsIncoming ==
    /\ DOMAIN lastMeshes = meshEmitted
    /\ lastCall # NilPtr =>
          LET c == Deref(lastCall) IN
          (~c.in.IsDelta /\ c.in.AnchorID \in meshEmitted) =>
              /\ c.in.AnchorID \in DOMAIN lastMeshes
              /\ lastMeshes[c.in.AnchorID] = c.in.VerticesDelta

\* a remembered buffer was replaced by a different one while another anchor,
\* emitted earlier, has been cleared
C5_Witness ==
    /\ lastCall # NilPtr
    /\ Deref(lastCall).hadPrior
    /\ Deref(lastCall).prior # Deref(lastCall).in.VerticesDelta
    /\ Deref(lastCall).in.AnchorID \in DOMAIN lastMeshes
    /\ lastMeshes[Deref(lastCall).in.AnchorID] = Deref(lastCall).in.VerticesDelta
    /\ \E i \in 1..Len(eventQueue) :
          /\ eventQueue[i].Meshes # <<>>
          /\ eventQueue[i].Meshes[1].AnchorID \notin DOMAIN lastMeshes

----------------------------------------------------------------------------
(* Claims about the Transformer (SpecTransformer).                         *)

\* C6: all events produced from pose packets of one session, with no
\* ClearStaleSession for it in between, carry the same anchor id, whatever
\* packets of other sessions and mesh packets come in between.
C6_SameAnchorPerSession ==
    \A x, y \in poseLog :
        (x.SessionID = y.SessionID /\ x.epoch = y.epoch) => x.AnchorID = y.AnchorID

\* two pose events of one session, and a pose event of another session
C6_Witness ==
    \E x, y, z \in poseLog :
        /\ x.SessionID = y.SessionID
        /\ x.epoch = y.epoch
        /\ x.EventID # y.EventID
        /\ z.SessionID # x.SessionID

\* C7: the anchor ids allocated to distinct session ids differ: no two entries of
\* the anchor-id map hold the same anchor id, and no anchor id is ever given to
\* two sessions.
C7_DistinctAnchors ==
    /\ \A s, t \in DOMAIN anchorMap : s # t => anchorMap[s] # anchorMap[t]
    /\ \A x, y \in poseLog : x.SessionID # y.SessionID => x.AnchorID # y.AnchorID

\* two sessions are mapped, one of them again after its mapping was cleared
C7_Witness ==
    /\ Cardinality(DOMAIN anchorMap) >= 2
    /\ \E s \in DOMAIN anchorMap : clearCount[s] > 0

----------------------------------------------------------------------------
(* Claims about the Gate's fan-in (SpecGate).                              *)

\* the frames read so far that were put on the channel, and those dropped
QueuedFrames == {i \in 1..Len(frameLog) : frameLog[i].queued}
DroppedFrames == {i \in 1..Len(frameLog) : ~frameLog[i].queued}

\* C8: a reader never blocks on the fan-in queue: a reader at its read can take
\* its frame whatever the queue holds, a frame is dropped exactly when the queue
\* already holds bufferSize messages, and the queue never holds more than
\* bufferSize messages.
C8_ReaderNeverBlocks ==
    /\ Len(messageC) <= bufferSize
    /\ \A i \in 1..Len(frameLog) :
          /\ frameLog[i].before <= bufferSize
          /\ frameLog[i].queued <=> frameLog[i].before < bufferSize
    /\ \A h \in 1..Len(handlers) :
          (handlers[h].pc = "read" /\ Len(frameLog) < MaxFrames) =>
              \A p \in GatePackets :
                  ENABLED forwardMessage(MessageEvent(handlers[h].ID, p, Len(frameLog) + 1))

\* the queue is full, a frame was dropped, and the reader that dropped it is at
\* its next read
C8_Witness ==
    /\ Len(messageC) = bufferSize
    /\ \E i \in DroppedFrames, h \in 1..Len(handlers) :
          /\ handlers[h].ID = frameLog[i].from
          /\ handlers[h].pc = "read"

\* the number of times frame number seq is in a sequence of frame numbers
SeqCount(seq, numbers) == Cardinality({k \in 1..Len(numbers) : numbers[k] = seq})

\* the frame numbers of the messages on the channel
OnChannel == [k \in 1..Len(messageC) |-> messageC[k].seq]

----------------------------------------------------------------------------
(* Claims about the Gate's connection table (SpecTable).                   *)

\* the open connections that have not exceeded the stale threshold
OpenAndFresh == {h \in 1..Len(handlers) : Open(h) /\ ~Stale(h)}

\* C10: for all sequences of accept, frame-arrival, close and heartbeat-tick
\* events, the number of entries of the connection table equals the number of
\* open connections that have not exceeded the stale threshold.
C10_TableCountsOpenFresh == GetActiveConnections = Cardinality(OpenAndFresh)

----------------------------------------------------------------------------
(* Claims about the Gate's accept path and read loops (SpecGate).          *)

\* the step registers a connection
Registers == Len(handlers') > Len(handlers)

\* C11: an upgrade request with an absent or empty X-API-Key is answered 401,
\* creates no Connection record and leaves the connection table and the fan-in
\* queue as they were; a request with a non-empty key is admitted, and its
\* admission registers exactly one connection, under that connection's id.
C11_RejectsMissingKey ==
    /\ [](/\ lastUpgrade # NilPtr =>
                (Deref(lastUpgrade).apiKey = "" <=>
                     Deref(lastUpgrade).status = StatusUnauthorized)
          /\ \A h \in 1..Len(handlers) : Open(h) => handlers[h].APIKey # "")
    /\ [][/\ (/\ lastUpgrade' # lastUpgrade
               /\ Deref(lastUpgrade').status = StatusUnauthorized) =>
                  UNCHANGED <<handlers, connections, messageC>>
          /\ Registers =>
                  /\ Len(handlers') = Len(handlers) + 1
                  /\ SubSeq(handlers', 1, Len(handlers)) = handlers
                  /\ Deref(lastUpgrade').status # StatusUnauthorized
                  /\ Deref(lastUpgrade').apiKey = handlers'[Len(handlers')].APIKey
                  /\ DOMAIN connections' =
                         DOMAIN connections \cup {handlers'[Len(handlers')].ID}
                  /\ connections'[handlers'[Len(handlers')].ID] = Len(handlers')
                  /\ messageC' = messageC]_vars

\* the last upgrade request was rejected while a connection is registered and a
\* message is on the queue
C11_Witness ==
    /\ lastUpgrade # NilPtr
    /\ Deref(lastUpgrade).status = StatusUnauthorized
    /\ connections # EmptyMap
    /\ messageC # <<>>

\* the step reads a frame; the entry it logs; the handlers that took the step
FrameRead == Len(frameLog') > Len(frameLog)
LoggedFrame == frameLog'[Len(frameLog')]
Readers == {h \in 1..Len(handlers) : handlers[h].pc = "read" /\ handlers'[h].pc = "select"}

\* the connections the table holds
Registered == {connections[id] : id \in DOMAIN connections}

\* C12 (SpecSession): a connection's session id is set by the first frame that
\* carries a non-empty session id and never changes afterwards; a later frame
\* with another session id is put on the queue like any frame and does not
\* re-bind; GetConnectionsBySession(S) is the set of the connections of the
\* table that are bound to S.
C12_SessionBoundOnce ==
    /\ [](\A S \in Sessions :
              GetConnectionsBySession(S) =
                  {h \in Registered : handlers[h].SessionID = S})
    /\ [][/\ \A h \in 1..Len(handlers) :
                handlers[h].SessionID # "" => handlers'[h].SessionID = handlers[h].SessionID
          /\ FrameRead =>
                /\ Cardinality(Readers) = 1
                /\ \A h \in Readers :
                      /\ LoggedFrame.from = handlers[h].ID
                      /\ handlers[h].SessionID = "" =>
                             handlers'[h].SessionID = LoggedFrame.session
                /\ \A h \in (1..Len(handlers)) \ Readers :
                      handlers'[h].SessionID = handlers[h].SessionID
                /\ LoggedFrame.queued <=> Len(messageC) < bufferSize]_vars

\* a connection bound to a session after a frame without a session id or with
\* this one, whose later frame with another session id was put on the queue
C12_Witness ==
    \E h \in Registered, i \in QueuedFrames :
        /\ \A g \in 1..Len(handlers) : g # h => handlers[g].ID # handlers[h].ID
        /\ frameLog[i].from = handlers[h].ID
        /\ handlers[h].SessionID # ""
        /\ frameLog[i].session \notin {"", handlers[h].SessionID}
        /\ GetConnectionsBySession(handlers[h].SessionID) = {h}

\* the handlers whose read loop ends in this step
Terminating == {h \in 1..Len(handlers) : Open(h) /\ handlers'[h].pc = "done"}

\* C13 (SpecGate): when a connection's read loop ends - on a read error or a
\* close by the client, or on the Gate's stop - the table has no entry under that
\* connection's id afterwards; no entry of the table is that of a connection
\* whose read loop has ended; and once every accepted connection has ended, the
\* active-connection count is 0.
C13_ClosedIsRemoved ==
    /\ [](/\ \A h \in Registered : Open(h)
          /\ (\A h \in 1..Len(handlers) : ~Open(h)) => GetActiveConnections = 0)
    /\ [][\A h \in Terminating : handlers[h].ID \notin DOMAIN connections']_vars

\* the Gate was stopped, and two connections that had read frames have ended
C13_Witness ==
    /\ gateStopC
    /\ Len(handlers) >= 2
    /\ \A h \in 1..Len(handlers) : ~Open(h) /\ handlers[h].SessionID # ""
    /\ GetActiveConnections = 0

----------------------------------------------------------------------------
(* Claims about the heartbeat sweep (SpecSweep).                           *)

\* the step is a heartbeat tick: the sweep answers the ticker
Sweeps == heartbeat.due /\ ~heartbeat'.due

\* the table entries whose connection was last read from more than
\* 3 x heartbeatInterval ago
LongSilent == {id \in DOMAIN connections :
                  now - handlers[connections[id]].LastSeen > 3 * heartbeatInterval}

\* C14: a heartbeat tick removes from the table exactly the connections last
\* read from more than 3 x heartbeatInterval ago, and keeps every other entry as
\* it was; so a connection read from within the threshold is never removed by
\* the sweep.
C14_SweepRemovesExactlyStale ==
    [][Sweeps =>
          /\ DOMAIN connections' = DOMAIN connections \ LongSilent
          /\ \A id \in DOMAIN connections' : connections'[id] = connections[id]]_vars

\* a sweep has removed one connection and kept another, which was read from at
\* the threshold
C14_Witness ==
    /\ ~heartbeat.due
    /\ \E h \in Registered : now - handlers[h].LastSeen = 3 * heartbeatInterval
    /\ \E h \in 1..Len(handlers) :
          /\ Open(h) /\ h \notin Registered /\ Stale(h)
          /\ \A g \in 1..Len(handlers) : g # h => handlers[g].ID # handlers[h].ID

----------------------------------------------------------------------------
(* Claims about the delivery to the sink (SpecSink, SpecUpdater).          *)

\* the batches whose request has been answered, or has failed in transport
Answered == {i \in 1..Len(batches) : batches[i].status # NilPtr}

\* C15 (SpecSink): a batch delivery counts as a success for every response status
\* in 200..299, and as a failure for every other status and for a transport error.
C15_Any2xxIsSuccess ==
    \A i \in Answered :
        LET st == Deref(batches[i].status)
        IN  /\ batches[i].state \in {"ok", "failed"}
            /\ batches[i].state = "ok" <=> (st >= 200 /\ st <= 299)

\* the batches whose delivery fails in this step
Failing == {i \in 1..Len(batches) : batches[i].state = "sending" /\ batches'[i].state = "failed"}

\* C16 (SpecUpdater): a failed delivery drops its batch and nothing else: the
\* batch has had one request and never has another, its events are not on the
\* queue and in no other batch, the failure leaves the queue and the accepted
\* events as they were, and a batchProcessor that was flushing is back at its
\* select, where the next flush is attempted.
C16_FailedBatchDropped ==
    /\ [](\A i \in 1..Len(batches) :
              batches[i].state = "failed" =>
                  /\ batches[i].sends = 1
                  /\ \A k \in 1..Len(batches[i].events) :
                         Places(batches[i].events[k].EventID) = 1)
    /\ [][/\ Len(batches') >= Len(batches)
          /\ \A i \in 1..Len(batches) :
                /\ batches'[i].events = batches[i].events
                /\ batches[i].state = "failed" => batches'[i] = batches[i]
          /\ \A i \in Failing :
                /\ UNCHANGED <<eventQueue, accepted, pendingFlush>>
                /\ batches[i].by = "ticker" => bp' = "select"]_vars

\* a batch that failed, and a batch formed by a later tick that was delivered
C16_Witness ==
    \E i, j \in 1..Len(batches) :
        /\ i < j
        /\ batches[i].state = "failed"
        /\ batches[j].by = "ticker"
        /\ batches[j].state = "ok"

----------------------------------------------------------------------------
(* Claims about the Updater's shutdown (SpecStop).                         *)

\* C17: when Stop, called on a started Updater, has returned, every event
\* accepted before the call has had its delivery attempt completed and the
\* pending queue is empty; this includes the events taken by a size-triggered
\* flush that was still in flight.
C17_StopAfterAllDeliveries ==
    (stopReturned /\ bp = "done") =>
        /\ eventQueue = <<>>
        /\ \A id \in accepted :
              \E i \in 1..Len(batches) :
                  /\ CountIn(id, batches[i].events) = 1
                  /\ batches[i].state # "sending"

----------------------------------------------------------------------------
(* Claims about the ticker flush (SpecSinkLive).                           *)

\* the step is a tick of batchProcessor that finds events pending
TickTakes == bp = "select" /\ bp' = "sendTicker"

\* C18: while the Updater is running, every event ProcessEvent has accepted is
\* eventually in a dispatched batch, and at the latest in the batch of the next
\* tick batchProcessor answers: that tick takes everything that is pending,
\* whether or not batchSize was reached.
C18_EventuallyDispatched ==
    /\ [][TickTakes =>
              /\ eventQueue' = <<>>
              /\ \A id \in accepted : CountInBatches(id, batches') = 1]_vars
    /\ \A n \in 1..MaxUUID :
          (UUID(n) \in accepted /\ bp # "idle") ~> (CountInBatches(UUID(n), batches) = 1)

\* a tick has dispatched a batch of fewer than batchSize events
C18_Witness ==
    \E i \in 1..Len(batches) :
        /\ batches[i].by = "ticker"
        /\ Len(batches[i].events) < batchSize
        /\ batches[i].sends = 1

----------------------------------------------------------------------------
(* Claims about the order within a batch (SpecUpdater).                    *)

\* the rank of an event in the order of acceptance: ProcessEvent is called by
\* the one consumer, event after event, and the event ids are drawn in that order
AcceptRank(event) == event.EventID[2]

\* the events are in the order of their acceptance
InAcceptOrder(events) ==
    \A i, j \in 1..Len(events) : i < j => AcceptRank(events[i]) < AcceptRank(events[j])

\* C19: within every dispatched batch, and on the pending queue, the events are
\* in the order in which ProcessEvent accepted them, for any interleaving of
\* enqueues and flushes.
C19_BatchKeepsOrder ==
    /\ InAcceptOrder(eventQueue)
    /\ \A i \in 1..Len(batches) : InAcceptOrder(batches[i].events)

\* a batch of two or more events formed after an earlier flush, with an event
\* pending
C19_Witness ==
    /\ eventQueue # <<>>
    /\ \E i \in 2..Len(batches) : Len(batches[i].events) >= 2 /\ batches[i].sends = 1

----------------------------------------------------------------------------
(* Claims about the parser (SpecParser).                                   *)

\* the conditions of the structural and of the mesh validation, and the missing
\* pose payload
Listed(packet) ==
    \/ packet.SessionID = ""
    \/ packet.Timestamp <= 0
    \/ packet.Type \notin {"pose", "mesh"}
    \/ packet.Type = "pose" /\ packet.Pose = NilPtr
    \/ /\ packet.Type = "mesh"
       /\ \/ packet.Mesh = NilPtr
          \/ Deref(packet.Mesh).AnchorID = ""
          \/ Len(Deref(packet.Mesh).Vertices) = 0

\* a pose payload out of range: a position component outside [-1000, 1000], or a
\* squared quaternion magnitude outside [0.9, 1.1] (hundredths here)
PoseOutOfRange(packet) ==
    /\ packet.Type = "pose"
    /\ packet.Pose # NilPtr
    /\ LET pose == Deref(packet.Pose)
           q == pose.Rotation
           m == q[1] * q[1] + q[2] * q[2] + q[3] * q[3] + q[4] * q[4]
       IN  \/ \E c \in {pose.X, pose.Y, pose.Z} : c < -1000 \/ c > 1000
           \/ m < 90 \/ m > 110

\* a rejected packet reaches neither the Transformer nor the Updater, and an
\* accepted one reaches both
RejectedGoesNowhere(c) ==
    /\ c.err => ~c.transformed /\ ~c.queued
    /\ ~c.err => c.transformed /\ c.queued

\* C20, as stated: ParsePacket returns an error, and the packet reaches neither
\* Transformer nor Updater, exactly when the session id is empty, or the timestamp
\* is <= 0, or the type is neither "pose" nor "mesh", or a pose packet has no pose
\* payload, or a mesh packet has no mesh payload, an empty anchor id or an empty
\* vertex buffer; a mesh packet with an empty faces buffer is accepted.
C20_ErrorExactlyWhenListed ==
    lastParse # NilPtr =>
        LET c == Deref(lastParse)
        IN  /\ c.err <=> Listed(c.packet)
            /\ RejectedGoesNowhere(c)

\* C20, amended: as above, with one more case of an error: a pose packet whose
\* pose payload is out of range.
C20_ErrorExactlyWhenListedOrPoseOutOfRange ==
    lastParse # NilPtr =>
        LET c == Deref(lastParse)
        IN  /\ c.err <=> (Listed(c.packet) \/ PoseOutOfRange(c.packet))
            /\ RejectedGoesNowhere(c)

\* after an accepted event, a pose packet with a degenerate quaternion and none
\* of the listed faults has been rejected
C20_Witness ==
    /\ lastParse # NilPtr
    /\ Deref(lastParse).err
    /\ ~Listed(Deref(lastParse).packet)
    /\ Deref(Deref(lastParse).packet.Pose).Rotation = ZeroQuat
    /\ accepted # {}

----------------------------------------------------------------------------
(* Claims about the pose validation (SpecPose).                            *)

\* the squared magnitude of a rotation given in tenths, in hundredths
SquaredMagnitude(q) == q[1] * q[1] + q[2] * q[2] + q[3] * q[3] + q[4] * q[4]

\* every position component in [-1000, 1000], the squared magnitude in [0.9, 1.1]
WithinBounds(pose) ==
    /\ \A c \in {pose.X, pose.Y, pose.Z} : -1000 <= c /\ c <= 1000
    /\ 90 <= SquaredMagnitude(pose.Rotation) /\ SquaredMagnitude(pose.Rotation) <= 110

\* the last packet parsed is a pose packet that passed every check before
\* validatePose
PoseValidated ==
    /\ lastParse # NilPtr
    /\ validatePacket(Deref(lastParse).packet)
    /\ Deref(lastParse).packet.Type = "pose"
    /\ Deref(lastParse).packet.Pose # NilPtr

----------------------------------------------------------------------------
(* Claims about the event Transform returns (SpecParser, SpecTransformer). *)

\* C22: Transform maps a pose packet to an event with exactly one anchor record
\* (the session's anchor id, the pose payload, the packet's timestamp) and no
\* meshes, and a mesh packet to an event with exactly one mesh-diff (the client's
\* anchor id, the vertex and face bytes as given, not a delta) and no anchors;
\* the event keeps the packet's session id and timestamp, and at most one of
\* anchors and meshes is non-empty. The packets are those the parser lets through.
C22_EventMirrorsPacket ==
    lastTransform # NilPtr =>
        LET packet == Deref(lastTransform).packet
            event == Deref(lastTransform).event
        IN  /\ event.SessionID = packet.SessionID
            /\ event.Timestamp = packet.Timestamp
            /\ event.Anchors = <<>> \/ event.Meshes = <<>>
            /\ packet.Type = "pose" =>
                   /\ event.Meshes = <<>>
                   /\ Len(event.Anchors) = 1
                   /\ packet.SessionID \in DOMAIN anchorMap
                   /\ event.Anchors[1] = Anchor(anchorMap[packet.SessionID],
                                                Deref(packet.Pose), packet.Timestamp)
            /\ packet.Type = "mesh" =>
                   /\ event.Anchors = <<>>
                   /\ Len(event.Meshes) = 1
                   /\ event.Meshes[1] = MeshDiff(Deref(packet.Mesh).AnchorID,
                                                 Deref(packet.Mesh).Vertices,
                                                 Deref(packet.Mesh).Faces, FALSE)

\* a mesh event has followed a pose event of the same session
C22_Witness ==
    /\ lastTransform # NilPtr
    /\ Deref(lastTransform).packet.Type = "mesh"
    /\ Len(Deref(lastTransform).event.Meshes) = 1
    /\ Deref(lastTransform).packet.SessionID \in DOMAIN anchorMap

----------------------------------------------------------------------------
(* Claims about the shutdown of the core (SpecShutdownLive).               *)

\* `for msg := range gateInstance.Messages()` ends when the channel is closed and
\* drained; Gate.Stop closes stopC alone, and no statement closes messageC
MessagesClosed == FALSE
ConsumerReturned == MessagesClosed /\ messageC = <<>>

ShutdownSignalled == gateStopC /\ updStopC

ReadersReturned == \A h \in 1..Len(handlers) : handlers[h].pc = "done"

\* C23: after the shutdown signal (Gate.Stop, then Updater.Stop) every background
\* task eventually terminates: the heartbeat loop, every read loop, the consumer
\* of the fan-in queue once it has drained it, and the batch processor.
C23_TasksTerminateAfterShutdown ==
    ShutdownSignalled ~>
        (/\ heartbeat.state = "done"
         /\ ReadersReturned
         /\ ConsumerReturned
         /\ bp = "done")

----------------------------------------------------------------------------
(* Claims about frames that do not decode (SpecDecode).                    *)

\* this step reads a frame that does not decode
UndecodableRead ==
    /\ Len(frameLog') = Len(frameLog) + 1
    /\ ~frameLog'[Len(frameLog')].decoded

\* C24: a frame that fails to decode is dropped on its own: the read loop of its
\* connection continues (no handler returns in the step) and the connection
\* stays registered (the table is as it was), so that later frames of the
\* connection can still be enqueued.
C24_UndecodableFrameOnlyDropped ==
    [][UndecodableRead =>
           /\ connections' = connections
           /\ messageC' = messageC
           /\ \A h \in 1..Len(handlers) :
                  handlers'[h].pc = "done" => handlers[h].pc = "done"]_vars

----------------------------------------------------------------------------
(* Claims about locks and blocked deliveries (SpecShutdown).               *)

\* the consumer has a message to process and the run may still take events
MessageWaiting == messageC # <<>> /\ Accepted < MaxEvents

\* C25, its state part: while a sink send or a WebSocket read is in progress no
\* mutex is held, so the table queries get their read lock and ProcessEvent,
\* called by the consumer for a waiting message, completes.
C25_NoMutexAcrossIO ==
    (SendInProgress \/ ReadInProgress) =>
        /\ Held = {}
        /\ Lock("mutex")
        /\ MessageWaiting => ENABLED ProcessMessages

----------------------------------------------------------------------------
(* Claims about the order of messages (SpecGate).                          *)

\* the frame numbers of `seqs` that were read by connection `id`
OfConnection(id, seqs) == SelectSeq(seqs, LAMBDA n : frameLog[n].from = id)

\* the numbers of the frames read so far that were put on the channel
QueuedInOrder ==
    LET queued == SelectSeq(frameLog, LAMBDA f : f.queued)
    IN  [i \in 1..Len(queued) |-> queued[i].seq]

\* the numbers of the messages that have entered the channel: those the consumer
\* has received, then those still waiting
EnteredChannel == delivered \o [i \in 1..Len(messageC) |-> messageC[i].seq]

----------------------------------------------------------------------------
(* Claims about meshes that are not similar enough (SpecThreshold).        *)

\* the last mesh-diff processed had is_delta=false and met a remembered buffer of
\* another length, or of its length with at most 0.8 of the positions matching
NotSimilarToRemembered(c) ==
    /\ ~c.in.IsDelta
    /\ c.hadPrior
    /\ \/ Len(c.prior) # Len(c.in.VerticesDelta)
       \/ MatchingBytes(c.prior, c.in.VerticesDelta) * 10 <= 8 * Len(c.prior)

\* C27: a mesh-diff whose anchor has a remembered buffer of another length, or
\* one that matches it in at most 0.8 of the byte positions, is emitted unchanged
\* (is_delta=false, the incoming vertex buffer, the incoming faces), and the
\* incoming buffer becomes the remembered one.
C27_DissimilarMeshEmittedUnchanged ==
    lastCall # NilPtr =>
        LET c == Deref(lastCall) IN
        NotSimilarToRemembered(c) =>
            /\ ~c.out.IsDelta
            /\ c.out.VerticesDelta = c.in.VerticesDelta
            /\ c.out.FacesDelta = c.in.FacesDelta
            /\ c.out.AnchorID = c.in.AnchorID
            /\ c.in.AnchorID \in DOMAIN lastMeshes
            /\ lastMeshes[c.in.AnchorID] = c.in.VerticesDelta

\* the incoming buffer matches the remembered one in exactly 0.8 of the positions
C27_Witness ==
    /\ lastCall # NilPtr
    /\ NotSimilarToRemembered(Deref(lastCall))
    /\ Len(Deref(lastCall).prior) = Len(Deref(lastCall).in.VerticesDelta)
    /\ MatchingBytes(Deref(lastCall).prior, Deref(lastCall).in.VerticesDelta) * 10
           = 8 * Len(Deref(lastCall).prior)

----------------------------------------------------------------------------
(* Claims about what the parser returns (SpecDecompress).                  *)

\* the buffer `out` is the buffer `in` or what `in` holds as a gzip stream
SameOrDecompressed(in, out) == out = in \/ GzipEncode(out) = in

\* C28: for every packet ParsePacket accepts, the output has the session id, the
\* frame number, the timestamp and the type of the input; a pose packet is
\* returned as it came; a mesh packet keeps its anchor id, and its vertex buffer
\* is the input's or the gzip-decompressed input's.
C28_ParserPreservesPacket ==
    lastParse # NilPtr =>
        LET c == Deref(lastParse) IN
        ~c.err =>
            /\ c.out.packet.SessionID = c.packet.SessionID
            /\ c.out.packet.FrameNumber = c.packet.FrameNumber
            /\ c.out.packet.Timestamp = c.packet.Timestamp
            /\ c.out.packet.Type = c.packet.Type
            /\ c.packet.Type = "pose" => c.out.packet = c.packet
            /\ c.packet.Type = "mesh" =>
                  /\ c.out.packet.Pose = c.packet.Pose
                  /\ Deref(c.out.packet.Mesh).AnchorID = Deref(c.packet.Mesh).AnchorID
                  /\ SameOrDecompressed(Deref(c.packet.Mesh).Vertices,
                                        Deref(c.out.packet.Mesh).Vertices)

\* an accepted mesh packet whose vertex buffer came out decompressed, after an
\* accepted pose packet
C28_Witness ==
    /\ lastParse # NilPtr
    /\ ~Deref(lastParse).err
    /\ Deref(lastParse).packet.Type = "mesh"
    /\ Deref(Deref(lastParse).out.packet.Mesh).Vertices = BufA
    /\ Deref(Deref(lastParse).packet.Mesh).Vertices = GzipEncode(BufA)
    /\ \E k \in 1..Len(eventQueue) : eventQueue[k].Anchors # <<>>

\* the buffer is not a gzip stream that reads to its end
Undecompressable(data) == GzipEncode(SubSeq(data, 3, Len(data) - 1)) # data

----------------------------------------------------------------------------
(* Claims about packets of unknown type (SpecTransformer).                 *)

UnknownType(packet) == packet.Type \notin {"pose", "mesh"}

\* C30: for a packet whose type is neither "pose" nor "mesh" Transform returns an
\* event of the packet's session and timestamp with no anchors and no meshes, and
\* the step leaves the anchor-id map as it was.
C30_UnknownTypeGivesEmptyEvent ==
    /\ [](lastTransform # NilPtr =>
             LET c == Deref(lastTransform) IN
             UnknownType(c.packet) =>
                 /\ c.event.Anchors = <<>>
                 /\ c.event.Meshes = <<>>
                 /\ c.event.SessionID = c.packet.SessionID
                 /\ c.event.Timestamp = c.packet.Timestamp)
    /\ [][(uuidCounter' # uuidCounter /\ UnknownType(Deref(lastTransform').packet))
              => anchorMap' = anchorMap]_vars

\* a packet of unknown type was transformed while another session has an anchor
\* id and the packet's session has none
C30_Witness ==
    /\ lastTransform # NilPtr
    /\ UnknownType(Deref(lastTransform).packet)
    /\ DOMAIN anchorMap # {}
    /\ Deref(lastTransform).packet.SessionID \notin DOMAIN anchorMap

----------------------------------------------------------------------------
(* Claims about events without anchors and meshes (SpecEmpty).             *)

EmptyEvent(event) == event.Anchors = <<>> /\ event.Meshes = <<>>

\* C31: an event with no anchors and no meshes is a no-op for the Updater:
\* ProcessEvent leaves the pending queue as it was, so that no such event is ever
\* in the queue, and no request to the sink carries one.
C31_EmptyEventIsNoOp ==
    /\ \A k \in 1..Len(eventQueue) : ~EmptyEvent(eventQueue[k])
    /\ \A i \in 1..Len(batches) :
           batches[i].sends > 0 =>
               \A k \in 1..Len(batches[i].events) : ~EmptyEvent(batches[i].events[k])

----------------------------------------------------------------------------
(* Claims about the events of the pipeline (SpecPipeline).                 *)

\* where an event the Updater holds or has sent is: <<0, k>> is the k-th event
\* of the pending queue, <<i, k>> the k-th event of the i-th batch
EventPlaces ==
    {<<0, k>> : k \in 1..Len(eventQueue)}
    \cup UNION {{<<i, k>> : k \in 1..Len(batches[i].events)} : i \in 1..Len(batches)}
EventAt(place) ==
    IF place[1] = 0 THEN eventQueue[place[2]] ELSE batches[place[1]].events[place[2]]

\* C32: every event the pipeline has handed to the Updater, pending or in a
\* batch, has a session id, an event id and a timestamp above zero, and no two
\* of them have the same event id.
C32_EventsValidAndDistinct ==
    /\ \A place \in EventPlaces : ValidateEvent(EventAt(place))
    /\ \A p1, p2 \in EventPlaces :
           p1 # p2 => EventAt(p1).EventID # EventAt(p2).EventID

\* a batch of two events has been sent, another event is pending, and the last
\* packet was rejected for its timestamp
C32_Witness ==
    /\ \E i \in 1..Len(batches) : batches[i].sends > 0 /\ Len(batches[i].events) >= 2
    /\ eventQueue # <<>>
    /\ lastParse # NilPtr
    /\ Deref(lastParse).err
    /\ Deref(lastParse).packet.SessionID # ""
    /\ Deref(lastParse).packet.Timestamp <= 0

----------------------------------------------------------------------------
(* Claims about NormalizeTimestamp (SpecTimestamp).                        *)

\* the result is the clock when the timestamp, taken times 1000 if below
\* 1000000000000, is outside the window, and that value otherwise; it lies in
\* the window
NormalizedAsStated(c) ==
    LET scaled == IF Less64(c.timestamp, SecondsBelow)
                  THEN Mul64(c.timestamp, 1000) ELSE c.timestamp
        upper == Add64(c.clock, Int64(FutureWindow))
        lower == Add64(c.clock, Int64(0 - PastWindow))
    IN  /\ c.result = IF Less64(upper, scaled) \/ Less64(scaled, lower)
                      THEN c.clock ELSE scaled
        /\ ~Less64(c.result, lower)
        /\ ~Less64(upper, c.result)

\* C33 as stated: at every clock the result is as described, lies in the
\* window, and NormalizeTimestamp maps it to itself.
C33_NormalizeIdempotent ==
    lastNormalize # NilPtr =>
        LET c == Deref(lastNormalize) IN
        NormalizedAsStated(c) /\ c.again = c.result

\* C33, amended: the result is as described and lies in the window at every
\* clock, and at a clock of at least 1000003600000 (an hour after 1000000000000,
\* in September 2001) NormalizeTimestamp maps the result to itself.
C33_NormalizeIdempotentAfter2001 ==
    lastNormalize # NilPtr =>
        LET c == Deref(lastNormalize) IN
        /\ NormalizedAsStated(c)
        /\ ~Less64(c.clock, Add64(SecondsBelow, Int64(PastWindow))) => c.again = c.result

\* at the clock of 2026 a timestamp in seconds was multiplied and kept
C33_Witness ==
    /\ lastNormalize # NilPtr
    /\ Deref(lastNormalize).clock = ClockMilli(1762383600)
    /\ Deref(lastNormalize).timestamp = Int64(1762383600 - 3600)
    /\ Deref(lastNormalize).result = Mul64(Int64(1762383600 - 3600), 1000)
    /\ Deref(lastNormalize).again = Deref(lastNormalize).result

----------------------------------------------------------------------------
(* Claims about ClearStaleSession (SpecTransformer).                       *)

\* the session a step called ClearStaleSession for
ClearedSession == CHOOSE s \in SessionIDs : clearCount'[s] # clearCount[s]

\* the step transforms a pose packet with a pose for a session without a mapping
PoseForUnmapped ==
    /\ uuidCounter' # uuidCounter
    /\ Deref(lastTransform').packet.Type = "pose"
    /\ Deref(lastTransform').packet.Pose # NilPtr
    /\ Deref(lastTransform').packet.SessionID \notin DOMAIN anchorMap

\* C34: a step of ClearStaleSession(S) leaves every other session its anchor id
\* and S none, so that the number of mappings drops by one when S was mapped and
\* stays otherwise; and a pose packet for a session without a mapping, as S is
\* after the call, gives the session a mapping to an anchor id never used before.
C34_ClearRemovesOnlyThatSession ==
    [][/\ clearCount' # clearCount =>
              /\ DOMAIN anchorMap' = DOMAIN anchorMap \ {ClearedSession}
              /\ \A s \in DOMAIN anchorMap' : anchorMap'[s] = anchorMap[s]
              /\ Cardinality(DOMAIN anchorMap') =
                     IF ClearedSession \in DOMAIN anchorMap
                     THEN Cardinality(DOMAIN anchorMap) - 1
                     ELSE Cardinality(DOMAIN anchorMap)
       /\ PoseForUnmapped =>
              LET S == Deref(lastTransform').packet.SessionID IN
              /\ DOMAIN anchorMap' = DOMAIN anchorMap \cup {S}
              /\ \A s \in DOMAIN anchorMap : anchorMap'[s] = anchorMap[s]
              /\ \A e \in poseLog : e.AnchorID # anchorMap'[S]
              /\ Deref(lastTransform').event.Anchors[1].ID = anchorMap'[S]]_vars

\* s1 was mapped, cleared while s2 was mapped, and mapped again by a pose packet
C34_Witness ==
    /\ clearCount["s1"] = 1
    /\ {"s1", "s2"} \subseteq DOMAIN anchorMap
    /\ \E e1, e2 \in poseLog :
           /\ e1.SessionID = "s1" /\ e1.epoch = 0
           /\ e2.SessionID = "s1" /\ e2.epoch = 1
           /\ e1.AnchorID # e2.AnchorID
    /\ \E e \in poseLog : e.SessionID = "s2" /\ e.epoch = 0 /\ e.AnchorID = anchorMap["s2"]

----------------------------------------------------------------------------
(* Claims about connection ids (SpecGate).                                 *)

\* C35: any two connections the Gate has accepted have distinct connection ids,
\* and so every open connection has the table entry of its id to itself.
C35_DistinctConnectionIDs ==
    /\ \A h1, h2 \in 1..Len(handlers) :
           h1 # h2 => handlers[h1].ID # handlers[h2].ID
    /\ \A h \in 1..Len(handlers) :
           Open(h) =>
               handlers[h].ID \in DOMAIN connections /\ connections[handlers[h].ID] = h

----------------------------------------------------------------------------
(* Claims about the mutual exclusion on the shared structures (SpecAccess). *)

\* two operations of different goroutines are in progress on one structure, and
\* one of them writes it
Conflict(a, b) ==
    /\ a.task # b.task
    /\ a.writes \cap (b.reads \cup b.writes) # {}

\* C36: the mutexes held by the operations on the connection table, the
\* Connection records, the anchor-id map, the remembered-vertex map and the
\* pending queue keep them apart: no two goroutines are ever in operations on the
\* same structure of which one writes it.
C36_SharedStructuresUnderMutex ==
    \A a, b \in inAccess : ~Conflict(a, b)

----------------------------------------------------------------------------
(* Claims about the Updater's lifecycle (SpecUpdater).                     *)

\* C37: the Updater is idle until Start, then accepts and flushes, and is
\* stopped once Stop has returned: no step forms a batch while batchProcessor
\* has not been started, and once Stop has returned no step queues an event or
\* forms a batch.
C37_LifecycleRespected ==
    [][/\ bp = "idle" => Len(batches') = Len(batches)
       /\ stopReturned => accepted' = accepted /\ Len(batches') = Len(batches)]_vars

----------------------------------------------------------------------------
(* Claims about the worker pool (SpecPool, SpecPoolStop).                  *)

\* the messages handed to worker w, and those it has processed
HandedTo(w) == {d \in 1..Len(dispatches) : dispatches[d].pc = "done" /\ dispatches[d].worker = w}
ProcessedBy(w) == {k \in 1..Len(jobLog) : jobLog[k].worker = w}

\* nothing of the pool can take a step
PoolAtRest == ~ENABLED NextPool

\* C38: a message whose goroutine has returned went to one worker, no message is
\* processed twice or by another worker than the one it went to, a worker has at
\* most one message in hand, no job channel is in the pool twice, a worker about
\* to register finds room in the pool, and the pool comes to rest only with every
\* message taken delivered and processed.
C38_OneWorkerPerMessage ==
    /\ PoolAtRest =>
           /\ \A d \in 1..Len(dispatches) : dispatches[d].pc = "done"
           /\ Len(jobLog) = Len(dispatches)
    /\ \A d \in 1..Len(dispatches) :
           /\ dispatches[d].pc = "done" => dispatches[d].worker \in Workers
           /\ Cardinality({k \in 1..Len(jobLog) : jobLog[k].msg = dispatches[d].msg}) <= 1
           /\ \A k \in 1..Len(jobLog) :
                  jobLog[k].msg = dispatches[d].msg =>
                      dispatches[d].pc = "done" /\ jobLog[k].worker = dispatches[d].worker
    /\ \A w \in Workers :
           Cardinality(HandedTo(w)) - Cardinality(ProcessedBy(w)) =
               IF workers[w].pc = "process" THEN 1 ELSE 0
    /\ \A i, j \in 1..Len(workerPool) : i # j => workerPool[i] # workerPool[j]
    /\ \A w \in Workers : workers[w].pc = "register" => Len(workerPool) < WorkerThreads

\* every message was processed, by both workers between them, and both workers
\* are registered again
C38_Witness ==
    /\ Len(jobLog) = MaxMessages
    /\ {jobLog[k].worker : k \in 1..Len(jobLog)} = Workers
    /\ Len(workerPool) = WorkerThreads

\* C39: after RelayServer.Stop no goroutine of the dispatcher is left sending to
\* the job channel of a worker that has returned, where it would wait for ever.
C39_NoSendToQuitWorker ==
    \A d \in 1..Len(dispatches) :
        dispatches[d].pc = "send" => workers[dispatches[d].worker].pc # "done"

----------------------------------------------------------------------------
(* Claims about empty flushes and the payload's count (SpecSink).          *)

\* C40: a flush that finds the pending queue empty forms no batch, so that no
\* batch and no request to the sink is without events, and the count of every
\* request is the number of its events.
C40_NoEmptyRequest ==
    /\ \A i \in 1..Len(batches) : Len(batches[i].events) > 0
    /\ \A request \in SinkRequests :
           request.count = Len(request.events) /\ request.count > 0

\* two events were taken by the ticker's flush and sent, and the flush that the
\* second event started has found the queue empty and formed no batch
C40_Witness ==
    /\ Len(batches) = 1
    /\ batches[1].by = "ticker"
    /\ batches[1].sends > 0
    /\ StagRequest(batches[1].events).count = 2
    /\ Cardinality(accepted) = 2
    /\ pendingFlush = 0
    /\ eventQueue = <<>>

=============================================================================
